---- MODULE Spec2Model ----
(***************************************************************************)
(* Verification development for the BVH2 builder of Cycles: bounding      *)
(* boxes, reference splitting, the binned and the sort-based object       *)
(* split, the recursive builder, the packer, refit and cancellation.      *)
(*                                                                         *)
(* Floats are modelled as integers (fixed point, divisions truncate       *)
(* towards zero like a float-to-int cast); FLT_MAX is a finite integer    *)
(* larger than every coordinate, area and cost the bounded inputs yield.  *)
(* Array indexes are 0-based as in the source; a sequence s holds the     *)
(* element of index i at s[i + 1].                                        *)
(***************************************************************************)
EXTENDS Integers, Sequences, FiniteSets, TLC

(***************************************************************************)
(* State                                                                   *)
(***************************************************************************)
VARIABLES
  scene,     \* the objects of the build and whether they are instanced
  sp,        \* the reference array under spatial splitting
  params,    \* BVH2::params
  progress,  \* the Progress handle: its cancel flag
  pack,      \* BVH2::pack, the packed structure
  bld,       \* the BVHBuild of the running build
  pc,        \* position inside BVH2::build and BVH2::refit
  hist,      \* history of builds, cancels and refits
  tp,        \* the task pool of a threaded build and its threads
  top        \* the top-level BVH2 in pack_instances: objects, geometry, offsets

vars == <<scene, sp, params, progress, pack, bld, pc, hist, tp, top>>

(***************************************************************************)
(* Scalars and float3                                                      *)
(***************************************************************************)
FLT_MAX == 100000000

Dims == 0 .. 2

\* ccl::min(a, b) is (a < b) ? a : b, ccl::max(a, b) is (a > b) ? a : b
Min2(a, b) == IF a < b THEN a ELSE b
Max2(a, b) == IF a > b THEN a ELSE b

Abs(a) == IF a < 0 THEN -a ELSE a

\* float division followed by truncation towards zero ((int) cast)
DivT(a, b) ==
  IF b = 0 THEN 0
  ELSE IF (a >= 0) = (b > 0) THEN Abs(a) \div Abs(b) ELSE -(Abs(a) \div Abs(b))

\* the element of a one-element set.  The({F(v) : v \in {e}}) is F(e) with e
\* evaluated once, before F: an intermediate result of the code.
The(S) == CHOOSE x \in S : TRUE

VMin(a, b) == <<Min2(a[1], b[1]), Min2(a[2], b[2]), Min2(a[3], b[3])>>
VMax(a, b) == <<Max2(a[1], b[1]), Max2(a[2], b[2]), Max2(a[3], b[3])>>
VAdd(a, b) == <<a[1] + b[1], a[2] + b[2], a[3] + b[3]>>
VSub(a, b) == <<a[1] - b[1], a[2] - b[2], a[3] - b[3]>>
VSet(a, d, x) == [a EXCEPT ![d + 1] = x]

(***************************************************************************)
(* BoundBox (util/boundbox.h)                                              *)
(***************************************************************************)
BoundBox_empty ==
  [min |-> <<FLT_MAX, FLT_MAX, FLT_MAX>>, max |-> <<-FLT_MAX, -FLT_MAX, -FLT_MAX>>]

BoundBox_grow_pt(b, pt) == [min |-> VMin(pt, b.min), max |-> VMax(pt, b.max)]

BoundBox_grow_border(b, pt, border) ==
  LET shift == <<border, border, border>>
  IN  [min |-> VMin(VSub(pt, shift), b.min), max |-> VMax(VAdd(pt, shift), b.max)]

BoundBox_grow(b, bbox) == [min |-> VMin(bbox.min, b.min), max |-> VMax(bbox.max, b.max)]

BoundBox_intersect_min_only(b, bbox) == [min |-> VMax(b.min, bbox.min), max |-> b.max]

BoundBox_intersect(b, bbox) == [min |-> VMax(b.min, bbox.min), max |-> VMin(b.max, bbox.max)]

BoundBox_merge(a, b) == [min |-> VMin(a.min, b.min), max |-> VMax(a.max, b.max)]

BoundBox_half_area(b) ==
  LET d == VSub(b.max, b.min)
  IN  d[1] * d[3] + d[2] * d[3] + d[1] * d[2]

BoundBox_area(b) == BoundBox_half_area(b) * 2

BoundBox_safe_area(b) ==
  IF ~(b.min[1] <= b.max[1] /\ b.min[2] <= b.max[2] /\ b.min[3] <= b.max[3])
  THEN 0
  ELSE BoundBox_area(b)

BoundBox_center2(b) == VAdd(b.min, b.max)

BoundBox_size(b) == VSub(b.max, b.min)

BoundBox_valid(b) ==
  /\ b.min[1] <= b.max[1] /\ b.min[2] <= b.max[2] /\ b.min[3] <= b.max[3]
  /\ \A d \in 1 .. 3 : Abs(b.min[d]) < FLT_MAX /\ Abs(b.max[d]) < FLT_MAX

\* componentwise containment of the box inner in the box outer
BoxIn(inner, outer) ==
  \A d \in 1 .. 3 : outer.min[d] <= inner.min[d] /\ inner.max[d] <= outer.max[d]

PointIn(p, b) == \A d \in 1 .. 3 : b.min[d] <= p[d] /\ p[d] <= b.max[d]

(***************************************************************************)
(* Geometry, objects and references                                        *)
(*                                                                         *)
(* A geometry is a record [kind, pts, radius, items]: a mesh has vertices  *)
(* pts and triangles items (index triples), a hair has keys pts with       *)
(* radius and curves items (<<first_key, num_keys>>), a point cloud has    *)
(* centres pts with radius.  An object is [geom, tfm], tfm a translation.  *)
(***************************************************************************)
PRIMITIVE_NONE == 0
PRIMITIVE_TRIANGLE == 1
PRIMITIVE_CURVE == 2
PRIMITIVE_POINT == 4
PRIMITIVE_NUM == 8

HasType(t, tag) == ((t \div tag) % 2) = 1

PRIMITIVE_PACK_SEGMENT(type, segment) == segment * PRIMITIVE_NUM + type
PRIMITIVE_UNPACK_SEGMENT(type) == type \div PRIMITIVE_NUM

transform_point(tfm, p) == VAdd(p, tfm)

ZeroTfm == <<0, 0, 0>>

BVHReference(bounds, prim_index, prim_object, prim_type) ==
  [bounds |-> bounds, prim_index |-> prim_index,
   prim_object |-> prim_object, prim_type |-> prim_type]

\* the identity of the primitive a reference stands for
RefId(ref) == <<ref.prim_object, ref.prim_index, ref.prim_type>>

\* mix(v0, v1, clamp((pos - v0p) / (v1p - v0p), 0, 1))
mix_clamped(v0, v1, num, den) ==
  IF den = 0 \/ (num >= 0) # (den > 0) THEN v0
  ELSE IF Abs(num) >= Abs(den) THEN v1
  ELSE <<v0[1] + DivT((v1[1] - v0[1]) * num, den),
         v0[2] + DivT((v1[2] - v0[2]) * num, den),
         v0[3] + DivT((v1[3] - v0[3]) * num, den)>>

\* one edge (v0, v1) of split_triangle_primitive / split_curve_primitive:
\* lr is <<left_bounds, right_bounds>>
SplitEdge(lr, v0, v1, dim, pos) ==
  LET v0p == v0[dim + 1]
      v1p == v1[dim + 1]
      l1  == IF v0p <= pos THEN BoundBox_grow_pt(lr[1], v0) ELSE lr[1]
      r1  == IF v0p >= pos THEN BoundBox_grow_pt(lr[2], v0) ELSE lr[2]
  IN  IF (v0p < pos /\ v1p > pos) \/ (v0p > pos /\ v1p < pos)
      THEN LET t == mix_clamped(v0, v1, pos - v0p, v1p - v0p)
           IN  <<BoundBox_grow_pt(l1, t), BoundBox_grow_pt(r1, t)>>
      ELSE <<l1, r1>>

split_triangle_primitive(mesh, tfm, prim_index, dim, pos, lr) ==
  LET t  == mesh.items[prim_index + 1]
      P(i) == transform_point(tfm, mesh.pts[t[i] + 1])
      e0 == SplitEdge(lr, P(3), P(1), dim, pos)
      e1 == SplitEdge(e0, P(1), P(2), dim, pos)
  IN  SplitEdge(e1, P(2), P(3), dim, pos)

split_curve_primitive(hair, tfm, prim_index, segment_index, dim, pos, lr) ==
  LET curve == hair.items[prim_index + 1]
      k0  == curve[1] + segment_index
      k1  == k0 + 1
      v0  == transform_point(tfm, hair.pts[k0 + 1])
      v1  == transform_point(tfm, hair.pts[k1 + 1])
      v0p == v0[dim + 1]
      v1p == v1[dim + 1]
      l1  == IF v0p <= pos THEN BoundBox_grow_pt(lr[1], v0) ELSE lr[1]
      r1  == IF v0p >= pos THEN BoundBox_grow_pt(lr[2], v0) ELSE lr[2]
      l2  == IF v1p <= pos THEN BoundBox_grow_pt(l1, v1) ELSE l1
      r2  == IF v1p >= pos THEN BoundBox_grow_pt(r1, v1) ELSE r1
  IN  IF (v0p < pos /\ v1p > pos) \/ (v0p > pos /\ v1p < pos)
      THEN LET t == mix_clamped(v0, v1, pos - v0p, v1p - v0p)
           IN  <<BoundBox_grow_pt(l2, t), BoundBox_grow_pt(r2, t)>>
      ELSE <<l2, r2>>

split_point_primitive(pointcloud, tfm, prim_index, dim, pos, lr) ==
  LET point  == transform_point(tfm, pointcloud.pts[prim_index + 1])
      radius == pointcloud.radius[prim_index + 1]
      l1 == IF point[dim + 1] <= pos THEN BoundBox_grow_border(lr[1], point, radius) ELSE lr[1]
      r1 == IF point[dim + 1] >= pos THEN BoundBox_grow_border(lr[2], point, radius) ELSE lr[2]
  IN  <<l1, r1>>

RECURSIVE SplitAllTriangles(_, _, _, _, _, _)
SplitAllTriangles(mesh, tfm, i, dim, pos, lr) ==
  IF i >= Len(mesh.items) THEN lr
  ELSE SplitAllTriangles(mesh, tfm, i + 1, dim, pos,
                         split_triangle_primitive(mesh, tfm, i, dim, pos, lr))

RECURSIVE SplitAllSegments(_, _, _, _, _, _, _)
SplitAllSegments(hair, tfm, c, seg, dim, pos, lr) ==
  IF c >= Len(hair.items) THEN lr
  ELSE IF seg >= hair.items[c + 1][2] - 1
       THEN SplitAllSegments(hair, tfm, c + 1, 0, dim, pos, lr)
       ELSE SplitAllSegments(hair, tfm, c, seg + 1, dim, pos,
                             split_curve_primitive(hair, tfm, c, seg, dim, pos, lr))

RECURSIVE SplitAllPoints(_, _, _, _, _, _)
SplitAllPoints(pointcloud, tfm, i, dim, pos, lr) ==
  IF i >= Len(pointcloud.pts) THEN lr
  ELSE SplitAllPoints(pointcloud, tfm, i + 1, dim, pos,
                      split_point_primitive(pointcloud, tfm, i, dim, pos, lr))

split_object_reference(object, dim, pos, lr) ==
  LET geom == object.geom
  IN  IF geom.kind = "mesh" THEN SplitAllTriangles(geom, object.tfm, 0, dim, pos, lr)
      ELSE IF geom.kind = "hair" THEN SplitAllSegments(geom, object.tfm, 0, 0, dim, pos, lr)
      ELSE IF geom.kind = "pointcloud" THEN SplitAllPoints(geom, object.tfm, 0, dim, pos, lr)
      ELSE lr

\* split_reference, the loop over vertices and edges by primitive kind
SplitReferenceGeometry(objs, ref, dim, pos) ==
  IF HasType(ref.prim_type, PRIMITIVE_TRIANGLE)
  THEN split_triangle_primitive(objs[ref.prim_object + 1].geom, ZeroTfm, ref.prim_index,
                                dim, pos, <<BoundBox_empty, BoundBox_empty>>)
  ELSE IF HasType(ref.prim_type, PRIMITIVE_CURVE)
  THEN split_curve_primitive(objs[ref.prim_object + 1].geom, ZeroTfm, ref.prim_index,
                             PRIMITIVE_UNPACK_SEGMENT(ref.prim_type), dim, pos,
                             <<BoundBox_empty, BoundBox_empty>>)
  ELSE IF HasType(ref.prim_type, PRIMITIVE_POINT)
  THEN split_point_primitive(objs[ref.prim_object + 1].geom, ZeroTfm, ref.prim_index,
                             dim, pos, <<BoundBox_empty, BoundBox_empty>>)
  ELSE split_object_reference(objs[ref.prim_object + 1], dim, pos,
                              <<BoundBox_empty, BoundBox_empty>>)

\* split_reference, the end of it without the intersection with the bounds
\* of the reference
SplitReferenceClip_no_intersect(lr, ref, dim, pos) ==
  [left  |-> BVHReference([lr[1] EXCEPT !.max = VSet(@, dim, pos)],
                          ref.prim_index, ref.prim_object, ref.prim_type),
   right |-> BVHReference([lr[2] EXCEPT !.min = VSet(@, dim, pos)],
                          ref.prim_index, ref.prim_object, ref.prim_type)]

\* split_reference, the end of it: clip to the plane, intersect with the
\* bounds of the reference, set the references
SplitReferenceClip(lr, ref, dim, pos) ==
  [left  |-> BVHReference(
               BoundBox_intersect([lr[1] EXCEPT !.max = VSet(@, dim, pos)], ref.bounds),
               ref.prim_index, ref.prim_object, ref.prim_type),
   right |-> BVHReference(
               BoundBox_intersect([lr[2] EXCEPT !.min = VSet(@, dim, pos)], ref.bounds),
               ref.prim_index, ref.prim_object, ref.prim_type)]

split_reference(objs, ref, dim, pos) ==
  SplitReferenceClip(SplitReferenceGeometry(objs, ref, dim, pos), ref, dim, pos)

(***************************************************************************)
(* Bounds of primitives as the geometry reports them                       *)
(***************************************************************************)
Triangle_bounds_grow(mesh, tfm, prim_index, bounds) ==
  LET t == mesh.items[prim_index + 1]
      P(i) == transform_point(tfm, mesh.pts[t[i] + 1])
  IN  BoundBox_grow_pt(BoundBox_grow_pt(BoundBox_grow_pt(bounds, P(1)), P(2)), P(3))

Curve_bounds_grow(hair, tfm, prim_index, segment, bounds) ==
  LET k0 == hair.items[prim_index + 1][1] + segment
      v0 == transform_point(tfm, hair.pts[k0 + 1])
      v1 == transform_point(tfm, hair.pts[k0 + 2])
      mr == Max2(hair.radius[k0 + 1], hair.radius[k0 + 2])
  IN  BoundBox_grow_border(BoundBox_grow_border(bounds, v0, mr), v1, mr)

Point_bounds_grow(pointcloud, tfm, prim_index, bounds) ==
  BoundBox_grow_border(bounds, transform_point(tfm, pointcloud.pts[prim_index + 1]),
                       pointcloud.radius[prim_index + 1])

RECURSIVE GeomBoundsFrom(_, _, _, _, _)
GeomBoundsFrom(geom, tfm, i, seg, bounds) ==
  IF geom.kind = "mesh"
  THEN IF i >= Len(geom.items) THEN bounds
       ELSE GeomBoundsFrom(geom, tfm, i + 1, 0, Triangle_bounds_grow(geom, tfm, i, bounds))
  ELSE IF geom.kind = "hair"
  THEN IF i >= Len(geom.items) THEN bounds
       ELSE IF seg >= geom.items[i + 1][2] - 1 THEN GeomBoundsFrom(geom, tfm, i + 1, 0, bounds)
       ELSE GeomBoundsFrom(geom, tfm, i, seg + 1, Curve_bounds_grow(geom, tfm, i, seg, bounds))
  ELSE IF i >= Len(geom.pts) THEN bounds
       ELSE GeomBoundsFrom(geom, tfm, i + 1, 0, Point_bounds_grow(geom, tfm, i, bounds))

\* Object::bounds
Object_bounds(ob) == GeomBoundsFrom(ob.geom, ob.tfm, 0, 0, BoundBox_empty)

\* the bounds refit_primitives grows for the primitive slot (pidx, tob, type)
PrimBounds(objs, pidx, tob, type) ==
  LET ob == objs[tob + 1]
  IN  IF pidx = -1 THEN Object_bounds(ob)
      ELSE IF HasType(type, PRIMITIVE_CURVE)
      THEN Curve_bounds_grow(ob.geom, ZeroTfm, pidx, PRIMITIVE_UNPACK_SEGMENT(type), BoundBox_empty)
      ELSE IF HasType(type, PRIMITIVE_POINT)
      THEN Point_bounds_grow(ob.geom, ZeroTfm, pidx, BoundBox_empty)
      ELSE Triangle_bounds_grow(ob.geom, ZeroTfm, pidx, BoundBox_empty)

(***************************************************************************)
(* Cost parameters (BVHParams)                                             *)
(***************************************************************************)
sah_node_cost == 1
sah_primitive_cost == 1

primitive_cost(n) == n * sah_primitive_cost
node_cost(n) == n * sah_node_cost

(***************************************************************************)
(* BVHRange                                                                *)
(***************************************************************************)
BVHRange(bounds, start, size) ==
  [bounds |-> bounds, cent |-> BoundBox_empty, start |-> start, size |-> size]

BVHRangeC(bounds, cent, start, size) ==
  [bounds |-> bounds, cent |-> cent, start |-> start, size |-> size]

RangeEnd(r) == r.start + r.size

\* a swap that loses the element of index i
Swap_overwrite(s, i, j) == [s EXCEPT ![i + 1] = s[j + 1]]

\* std::swap(s[i], s[j])
Swap(s, i, j) == [s EXCEPT ![i + 1] = s[j + 1], ![j + 1] = s[i + 1]]

\* s with the sequence t inserted before the element of index at
InsertAt(s, at, t) == SubSeq(s, 1, at) \o t \o SubSeq(s, at + 1, Len(s))

(***************************************************************************)
(* BVHSpatialSplit::split                                                  *)
(***************************************************************************)
\* BVHUnaligned::compute_aligned_prim_boundbox for the identity space
compute_aligned_prim_boundbox(objs, prim) ==
  IF HasType(prim.prim_type, PRIMITIVE_CURVE)
  THEN Curve_bounds_grow(objs[prim.prim_object + 1].geom, ZeroTfm, prim.prim_index,
                         PRIMITIVE_UNPACK_SEGMENT(prim.prim_type), BoundBox_empty)
  ELSE IF BoundBox_valid(prim.bounds) THEN prim.bounds ELSE BoundBox_empty

get_prim_bounds(objs, prim, aligned) ==
  IF ~aligned THEN prim.bounds ELSE compute_aligned_prim_boundbox(objs, prim)

\* first loop: references entirely on one side of the plane
RECURSIVE SpatialCategorize(_, _, _, _, _)
SpatialCategorize(objs, st, dim, pos, aligned) ==
  IF st.i >= st.right_start THEN st
  ELSE LET prim_bounds == get_prim_bounds(objs, st.refs[st.i + 1], aligned)
       IN  IF prim_bounds.max[dim + 1] <= pos
           THEN SpatialCategorize(objs,
                  [st EXCEPT !.left_bounds = BoundBox_grow(@, prim_bounds),
                             !.refs = Swap(@, st.i, st.left_end),
                             !.left_end = @ + 1, !.i = @ + 1], dim, pos, aligned)
           ELSE IF prim_bounds.min[dim + 1] >= pos
           THEN SpatialCategorize(objs,
                  [st EXCEPT !.right_bounds = BoundBox_grow(@, prim_bounds),
                             !.refs = Swap(@, st.i, st.right_start - 1),
                             !.right_start = @ - 1], dim, pos, aligned)
           ELSE SpatialCategorize(objs, [st EXCEPT !.i = @ + 1], dim, pos, aligned)

\* the SAH of the three candidates for one reference intersecting both sides
\* (unsplit to the left, unsplit to the right, duplicate)
SpatialCandidates(st, curr_ref, sr) ==
  [unsplitLeftSAH |->
     BoundBox_safe_area(BoundBox_grow(st.left_bounds, curr_ref.bounds))
         * primitive_cost(st.left_end - st.left_start + 1)
       + BoundBox_safe_area(st.right_bounds) * primitive_cost(st.right_end - st.right_start),
   unsplitRightSAH |->
     BoundBox_safe_area(st.left_bounds) * primitive_cost(st.left_end - st.left_start)
       + BoundBox_safe_area(BoundBox_grow(st.right_bounds, curr_ref.bounds))
           * primitive_cost(st.right_end - st.right_start + 1),
   duplicateSAH |->
     BoundBox_safe_area(BoundBox_grow(st.left_bounds, sr.left.bounds))
         * primitive_cost(st.left_end - st.left_start + 1)
       + BoundBox_safe_area(BoundBox_grow(st.right_bounds, sr.right.bounds))
           * primitive_cost(st.right_end - st.right_start + 1)]

\* the outcome chosen for the reference at left_end: the state of the loop
\* after it
SpatialChoose(st, curr_ref, sr, c, minSAH) ==
  IF minSAH = c.unsplitLeftSAH
  THEN [st EXCEPT !.left_bounds = BoundBox_grow(@, curr_ref.bounds), !.left_end = @ + 1]
  ELSE IF minSAH = c.unsplitRightSAH
  THEN [st EXCEPT !.right_bounds = BoundBox_grow(@, curr_ref.bounds),
                  !.refs = Swap(@, st.left_end, st.right_start - 1),
                  !.right_start = @ - 1]
  ELSE [st EXCEPT !.left_bounds = BoundBox_grow(@, sr.left.bounds),
                  !.right_bounds = BoundBox_grow(@, sr.right.bounds),
                  !.refs = [@ EXCEPT ![st.left_end + 1] = sr.left],
                  !.left_end = @ + 1,
                  !.new_refs = Append(@, sr.right),
                  !.right_end = @ + 1]

SpatialChooseMin(st, curr_ref, sr, c) ==
  SpatialChoose(st, curr_ref, sr, c,
                Min2(Min2(c.unsplitLeftSAH, c.unsplitRightSAH), c.duplicateSAH))

\* the reference duplicated unless its cost equals that of an unsplit
SpatialSplitOne_duplicate(objs, st, dim, pos, curr_ref, sr) ==
  SpatialChoose(st, curr_ref, sr, SpatialCandidates(st, curr_ref, sr),
                SpatialCandidates(st, curr_ref, sr).duplicateSAH)

SpatialSplitOne(objs, st, dim, pos, curr_ref, sr) ==
  SpatialChooseMin(st, curr_ref, sr, SpatialCandidates(st, curr_ref, sr))

SpatialCurrRef(objs, st, dim, pos, aligned, curr_ref) ==
  The({SpatialSplitOne(objs, st, dim, pos, curr_ref, sr) :
         sr \in {split_reference(objs, curr_ref, dim, pos)}})

\* second loop: duplicate or unsplit the references intersecting both sides
RECURSIVE SpatialDistribute(_, _, _, _, _)
SpatialDistribute(objs, st, dim, pos, aligned) ==
  IF st.left_end >= st.right_start THEN st
  ELSE The({SpatialDistribute(objs, s, dim, pos, aligned) : s \in
         {SpatialCurrRef(objs, st, dim, pos, aligned,
            BVHReference(get_prim_bounds(objs, st.refs[st.left_end + 1], aligned),
                         st.refs[st.left_end + 1].prim_index,
                         st.refs[st.left_end + 1].prim_object,
                         st.refs[st.left_end + 1].prim_type))}})

\* for (i = from; i < to; ++i) bounds.grow(references[i].bounds())
RECURSIVE GrowRefs(_, _, _, _)
GrowRefs(refs, from, to, bounds) ==
  IF from >= to THEN bounds
  ELSE The({GrowRefs(refs, from + 1, to, b) :
              b \in {BoundBox_grow(bounds, refs[from + 1].bounds)}})

\* the end of split: the ranges with their bounds, recomputed from the
\* references when there is an aligned space
SpatialRanges(st, refs, aligned) ==
  [refs  |-> refs,
   left  |-> BVHRange(IF aligned
                      THEN GrowRefs(refs, st.left_start, st.left_end - st.left_start,
                                    BoundBox_empty)
                      ELSE st.left_bounds,
                      st.left_start, st.left_end - st.left_start),
   right |-> BVHRange(IF aligned
                      THEN GrowRefs(refs, st.right_start, st.right_end - st.right_start,
                                    BoundBox_empty)
                      ELSE st.right_bounds,
                      st.right_start, st.right_end - st.right_start),
   dups  |-> Len(st.new_refs), kind |-> "spatial"]

\* the duplicated references are inserted into the array in one go
SpatialInsert(st, aligned) ==
  SpatialRanges(st,
                IF st.new_refs # <<>>
                THEN InsertAt(st.refs, st.right_end - Len(st.new_refs), st.new_refs)
                ELSE st.refs,
                aligned)

\* returns [refs, left, right, dups]: the reference array after the split,
\* the two ranges and the number of duplicated references
BVHSpatialSplit_split(objs, refs0, range, dim, pos, aligned) ==
  The({SpatialInsert(s2, aligned) : s2 \in
    {SpatialDistribute(objs, s1, dim, pos, aligned) : s1 \in
      {SpatialCategorize(objs,
         [refs |-> refs0, i |-> range.start,
          left_start |-> range.start, left_end |-> range.start,
          right_start |-> RangeEnd(range), right_end |-> RangeEnd(range),
          left_bounds |-> BoundBox_empty, right_bounds |-> BoundBox_empty,
          new_refs |-> <<>>],
         dim, pos, aligned)}}})

(***************************************************************************)
(* BVHObjectBinning (bvh/binning.cpp), without an aligned space            *)
(*                                                                         *)
(* A binning range is a record [bounds, cent, start, size, num_bins,       *)
(* splitSAH, dim, pos, leafSAH, bestSAH], bestSAH being the local of the   *)
(* constructor dim was chosen from.  A candidate with an empty side has    *)
(* the cost inf * 0 = NaN in the source; NaN compares false with           *)
(* everything, so such a candidate never replaces the best one.            *)
(***************************************************************************)
MAX_BINS == 32

\* number of blocks of 4 primitives
blocks(a) == (a + 3) \div 4

Clamp(a, mn, mx) == Min2(Max2(a, mn), mx)

\* component d of get_bin(c): (int)((c - cent_bounds_.min) * scale - 0.5),
\* scale = safe_divide(num_bins, cent_bounds_.size()), clamped to the bins
get_bin(rng, c, d) ==
  IF rng.cent.max[d + 1] - rng.cent.min[d + 1] = 0 THEN 0
  ELSE Clamp(DivT(2 * (c[d + 1] - rng.cent.min[d + 1]) * rng.num_bins
                    - (rng.cent.max[d + 1] - rng.cent.min[d + 1]),
                  2 * (rng.cent.max[d + 1] - rng.cent.min[d + 1])),
             0, rng.num_bins - 1)

\* the dimension of the highest cost
get_best_dimension_worst(bestSAH) ==
  IF bestSAH[1] = Max2(bestSAH[1], Max2(bestSAH[2], bestSAH[3])) THEN 0
  ELSE IF bestSAH[2] = Max2(bestSAH[1], Max2(bestSAH[2], bestSAH[3])) THEN 1
  ELSE 2

get_best_dimension(bestSAH) ==
  IF bestSAH[1] = Min2(bestSAH[1], Min2(bestSAH[2], bestSAH[3])) THEN 0
  ELSE IF bestSAH[2] = Min2(bestSAH[1], Min2(bestSAH[2], bestSAH[3])) THEN 1
  ELSE 2

NoBin == [bounds |-> BoundBox_empty, count |-> 0]

BinAdd(acc, prim, inside) ==
  IF inside THEN [bounds |-> BoundBox_merge(acc.bounds, prim.bounds), count |-> acc.count + 1]
  ELSE acc

\* merged bounds and count of the bins lo .. hi - 1 of dimension d
RECURSIVE BinSweep(_, _, _, _, _, _, _)
BinSweep(prims, rng, d, lo, hi, i, acc) ==
  IF i >= rng.size THEN acc
  ELSE The({BinSweep(prims, rng, d, lo, hi, i + 1, a) : a \in
         {BinAdd(acc, prims[rng.start + i + 1],
                 /\ lo <= get_bin(rng, BoundBox_center2(prims[rng.start + i + 1].bounds), d)
                 /\ get_bin(rng, BoundBox_center2(prims[rng.start + i + 1].bounds), d) < hi)}})

BinSAH(L, R) ==
  BoundBox_half_area(L.bounds) * blocks(L.count) + BoundBox_half_area(R.bounds) * blocks(R.count)

\* bestSplit = select(sah < bestSAH, ii, bestSplit); bestSAH = min(sah, bestSAH)
BinSelect(best, i, L, R) ==
  IF L.count > 0 /\ R.count > 0 /\ BinSAH(L, R) < best.sah
  THEN [sah |-> BinSAH(L, R), split |-> i]
  ELSE best

\* sweep from left to right over the splits i = 1 .. num_bins - 1
RECURSIVE BinBest(_, _, _, _, _)
BinBest(prims, rng, d, i, best) ==
  IF i >= rng.num_bins THEN best
  ELSE The({BinBest(prims, rng, d, i + 1, BinSelect(best, i, L, R)) :
              L \in {BinSweep(prims, rng, d, 0, i, 0, NoBin)},
              R \in {BinSweep(prims, rng, d, i, rng.num_bins, 0, NoBin)}})

\* bestSAH of dimension d after the mask of the axes without extent
BinMasked(rng, d, best) ==
  IF rng.cent.max[d + 1] - rng.cent.min[d + 1] <= 0 THEN FLT_MAX ELSE best.sah

BinChoose(rng, bestSAH, bestSplit, dim) ==
  [bounds |-> rng.bounds, cent |-> rng.cent, start |-> rng.start, size |-> rng.size,
   num_bins |-> rng.num_bins, splitSAH |-> bestSAH[dim + 1], dim |-> dim,
   pos |-> bestSplit[dim + 1], bestSAH |-> bestSAH,
   leafSAH |-> BoundBox_half_area(rng.bounds) * blocks(rng.size)]

BinFinish(rng, bestSAH, bestSplit) ==
  BinChoose(rng, bestSAH, bestSplit, get_best_dimension(bestSAH))

BinBests(rng, b0, b1, b2) ==
  BinFinish(rng, <<BinMasked(rng, 0, b0), BinMasked(rng, 1, b1), BinMasked(rng, 2, b2)>>,
            <<b0.split, b1.split, b2.split>>)

BinStart(rng, prims) ==
  The({BinBests(rng, b0, b1, b2) :
         b0 \in {BinBest(prims, rng, 0, 1, [sah |-> FLT_MAX, split |-> -1])},
         b1 \in {BinBest(prims, rng, 1, 1, [sah |-> FLT_MAX, split |-> -1])},
         b2 \in {BinBest(prims, rng, 2, 1, [sah |-> FLT_MAX, split |-> -1])}})

\* the constructor: job is a BVHRange with bounds and centroid bounds
BVHObjectBinning(job, prims) ==
  BinStart([bounds |-> job.bounds, cent |-> job.cent, start |-> job.start,
            size |-> job.size, num_bins |-> Min2(MAX_BINS, 4 + job.size \div 20)],
           prims)

\* bounds and centroid bounds of the references from .. to - 1
RECURSIVE BinGrowRange(_, _, _, _)
BinGrowRange(prims, from, to, acc) ==
  IF from >= to THEN acc
  ELSE The({BinGrowRange(prims, from + 1, to, a) : a \in
         {[geom |-> BoundBox_grow(acc.geom, prims[from + 1].bounds),
           cent |-> BoundBox_grow_pt(acc.cent, BoundBox_center2(prims[from + 1].bounds))]}})

\* the partition loop of split: st is [prims, l, r, lgeom, lcent, rgeom, rcent]
RECURSIVE BinPartition(_, _)
BinPartition(rng, st) ==
  IF st.l > st.r THEN st
  ELSE IF get_bin(rng, BoundBox_center2(st.prims[rng.start + st.l + 1].bounds), rng.dim)
            < rng.pos
  THEN The({BinPartition(rng, s) : s \in
         {[st EXCEPT !.lgeom = BoundBox_grow(@, st.prims[rng.start + st.l + 1].bounds),
                     !.lcent = BoundBox_grow_pt(@,
                                 BoundBox_center2(st.prims[rng.start + st.l + 1].bounds)),
                     !.l = @ + 1]}})
  ELSE The({BinPartition(rng, s) : s \in
         {[st EXCEPT !.rgeom = BoundBox_grow(@, st.prims[rng.start + st.l + 1].bounds),
                     !.rcent = BoundBox_grow_pt(@,
                                 BoundBox_center2(st.prims[rng.start + st.l + 1].bounds)),
                     !.prims = Swap(@, rng.start + st.l, rng.start + st.r),
                     !.r = @ - 1]}})

\* the median split with the bounds of the whole range on both sides
BinMedian_range_bounds(rng, prims, lb, rb) ==
  [prims |-> prims,
   left  |-> BVHObjectBinning(BVHRangeC(rng.bounds, rng.cent, rng.start, rng.size \div 2),
                              prims),
   right |-> BVHObjectBinning(BVHRangeC(rng.bounds, rng.cent, rng.start + rng.size \div 2,
                                        (rng.size \div 2) + (rng.size % 2)), prims)]

BinMedian(rng, prims, lb, rb) ==
  [prims |-> prims,
   left  |-> BVHObjectBinning(BVHRangeC(lb.geom, lb.cent, rng.start, rng.size \div 2), prims),
   right |-> BVHObjectBinning(BVHRangeC(rb.geom, rb.cent, rng.start + rng.size \div 2,
                                        (rng.size \div 2) + (rng.size % 2)), prims)]

BinSplitFinish(rng, st) ==
  IF st.l # 0 /\ rng.size - 1 - st.r # 0
  THEN [prims |-> st.prims,
        left  |-> BVHObjectBinning(BVHRangeC(st.lgeom, st.lcent, rng.start, st.l), st.prims),
        right |-> BVHObjectBinning(BVHRangeC(st.rgeom, st.rcent, rng.start + st.l,
                                             rng.size - 1 - st.r), st.prims)]
  ELSE BinMedian(rng, st.prims,
                 BinGrowRange(st.prims, rng.start, rng.start + rng.size \div 2,
                              [geom |-> BoundBox_empty, cent |-> BoundBox_empty]),
                 BinGrowRange(st.prims, rng.start + rng.size \div 2, rng.start + rng.size,
                              [geom |-> BoundBox_empty, cent |-> BoundBox_empty]))

\* BVHObjectBinning::split: returns [prims, left, right]
BVHObjectBinning_split(rng, prims) ==
  The({BinSplitFinish(rng, st) : st \in
    {BinPartition(rng, [prims |-> prims, l |-> 0, r |-> rng.size - 1,
                        lgeom |-> BoundBox_empty, lcent |-> BoundBox_empty,
                        rgeom |-> BoundBox_empty, rcent |-> BoundBox_empty])}})

(***************************************************************************)
(* bvh_reference_sort (bvh/sort.cpp), ranges below BVH_SORT_THRESHOLD      *)
(***************************************************************************)
\* BVHReferenceCompare::compare without the tie-break on the primitive index
BVHReferenceCompare_no_prim_index(ra, rb, dim) ==
  IF BoundBox_center2(ra.bounds)[dim + 1] < BoundBox_center2(rb.bounds)[dim + 1] THEN -1
  ELSE IF BoundBox_center2(ra.bounds)[dim + 1] > BoundBox_center2(rb.bounds)[dim + 1] THEN 1
  ELSE IF ra.prim_object < rb.prim_object THEN -1
  ELSE IF ra.prim_object > rb.prim_object THEN 1
  ELSE IF ra.prim_type < rb.prim_type THEN -1
  ELSE IF ra.prim_type > rb.prim_type THEN 1
  ELSE 0

\* BVHReferenceCompare::compare without an aligned space
BVHReferenceCompare(ra, rb, dim) ==
  IF ra.bounds.min[dim + 1] + ra.bounds.max[dim + 1]
       < rb.bounds.min[dim + 1] + rb.bounds.max[dim + 1] THEN -1
  ELSE IF ra.bounds.min[dim + 1] + ra.bounds.max[dim + 1]
            > rb.bounds.min[dim + 1] + rb.bounds.max[dim + 1] THEN 1
  ELSE IF ra.prim_object < rb.prim_object THEN -1
  ELSE IF ra.prim_object > rb.prim_object THEN 1
  ELSE IF ra.prim_index < rb.prim_index THEN -1
  ELSE IF ra.prim_index > rb.prim_index THEN 1
  ELSE IF ra.prim_type < rb.prim_type THEN -1
  ELSE IF ra.prim_type > rb.prim_type THEN 1
  ELSE 0

\* x inserted into the sorted sequence s behind every element not above it
RECURSIVE SortInsert(_, _, _, _)
SortInsert(s, x, dim, i) ==
  IF i > Len(s) THEN Append(s, x)
  ELSE IF BVHReferenceCompare(x, s[i], dim) < 0 THEN InsertAt(s, i - 1, <<x>>)
  ELSE SortInsert(s, x, dim, i + 1)

\* sort(data + start, data + end, compare): the elements in ascending order
RECURSIVE SortFrom(_, _, _, _, _)
SortFrom(data, from, to, dim, acc) ==
  IF from >= to THEN acc
  ELSE The({SortFrom(data, from + 1, to, dim, a) :
              a \in {SortInsert(acc, data[from + 1], dim, 1)}})

bvh_reference_sort(start, end, data, dim) ==
  SubSeq(data, 1, start) \o SortFrom(data, start, end, dim, <<>>)
    \o SubSeq(data, end + 1, Len(data))

(***************************************************************************)
(* BVHObjectSplit (bvh/split.cpp), without an aligned space                *)
(*                                                                         *)
(* os is [sah, dim, num_left, left_bounds, right_bounds, refs]: the fields *)
(* of the split and the reference array, which the constructor sorts.      *)
(***************************************************************************)
ObjectSplitSAH(nodeSAH, range, i, lb, rb) ==
  nodeSAH + BoundBox_safe_area(lb) * primitive_cost(i)
    + BoundBox_safe_area(rb) * primitive_cost(range.size - i)

ObjectSplitSelect(os, nodeSAH, range, dim, i, lb, rb) ==
  IF ObjectSplitSAH(nodeSAH, range, i, lb, rb) < os.sah
  THEN [os EXCEPT !.sah = ObjectSplitSAH(nodeSAH, range, i, lb, rb), !.dim = dim,
                  !.num_left = i, !.left_bounds = lb, !.right_bounds = rb]
  ELSE os

\* sweep left to right and select lowest SAH
RECURSIVE ObjectSplitSweep(_, _, _, _, _)
ObjectSplitSweep(os, nodeSAH, range, dim, i) ==
  IF i >= range.size THEN os
  ELSE The({ObjectSplitSweep(ObjectSplitSelect(os, nodeSAH, range, dim, i, lb, rb),
                             nodeSAH, range, dim, i + 1) :
              lb \in {GrowRefs(os.refs, range.start, range.start + i, BoundBox_empty)},
              rb \in {GrowRefs(os.refs, range.start + i, RangeEnd(range), BoundBox_empty)}})

ObjectSplitDim(os, nodeSAH, range, dim) ==
  The({ObjectSplitSweep([os EXCEPT !.refs = s], nodeSAH, range, dim, 1) :
         s \in {bvh_reference_sort(range.start, RangeEnd(range), os.refs, dim)}})

BVHObjectSplit(range, references, nodeSAH) ==
  The({ObjectSplitDim(o1, nodeSAH, range, 2) : o1 \in
    {ObjectSplitDim(o0, nodeSAH, range, 1) : o0 \in
      {ObjectSplitDim([sah |-> FLT_MAX, dim |-> 0, num_left |-> 0,
                       left_bounds |-> BoundBox_empty, right_bounds |-> BoundBox_empty,
                       refs |-> references],
                      nodeSAH, range, 0)}}})

\* BVHObjectSplit::split: returns [refs, left, right, dups, kind]
BVHObjectSplit_split(os, refs, range) ==
  [refs  |-> bvh_reference_sort(range.start, RangeEnd(range), refs, os.dim),
   left  |-> BVHRange(os.left_bounds, range.start, os.num_left),
   right |-> BVHRange(os.right_bounds, range.start + os.num_left, range.size - os.num_left),
   dups  |-> 0, kind |-> "object"]

(***************************************************************************)
(* BVHSpatialSplit constructor (bvh/split.cpp), without an aligned space   *)
(*                                                                         *)
(* bins is the sequence of the NUM_SPATIAL_BINS bins of one dimension,     *)
(* [bounds, enter, exit] each; rb is range.bounds().                       *)
(***************************************************************************)
NUM_SPATIAL_BINS == 4

\* origin[dim] + binSize[dim] * i
SpatialBinPos(rb, dim, i) ==
  rb.min[dim + 1] + DivT((rb.max[dim + 1] - rb.min[dim + 1]) * i, NUM_SPATIAL_BINS)

\* (int)((x - origin) * invBinSize)[dim], invBinSize = safe_divide(1, binSize)
SpatialBinOf(rb, x, dim) ==
  IF rb.max[dim + 1] - rb.min[dim + 1] = 0 THEN 0
  ELSE DivT((x - rb.min[dim + 1]) * NUM_SPATIAL_BINS, rb.max[dim + 1] - rb.min[dim + 1])

SpatialFirstBin(rb, ref, dim) ==
  Clamp(SpatialBinOf(rb, ref.bounds.min[dim + 1], dim), 0, NUM_SPATIAL_BINS - 1)

SpatialLastBin(rb, ref, dim) ==
  Clamp(SpatialBinOf(rb, ref.bounds.max[dim + 1], dim),
        SpatialFirstBin(rb, ref, dim), NUM_SPATIAL_BINS - 1)

RECURSIVE SpatialChop(_, _, _, _, _, _, _)
RECURSIVE SpatialChopStep(_, _, _, _, _, _, _)

\* the loop over the bins firstBin .. lastBin - 1 of one reference, then the
\* last bin
SpatialChop(objs, bins, dim, i, lastBin, currRef, rb) ==
  IF i >= lastBin
  THEN [bins EXCEPT ![lastBin + 1].bounds = BoundBox_grow(@, currRef.bounds),
                    ![lastBin + 1].exit = @ + 1]
  ELSE The({SpatialChopStep(objs, bins, dim, i, lastBin, rb, sr) : sr \in
         {split_reference(objs, currRef, dim, SpatialBinPos(rb, dim, i + 1))}})

SpatialChopStep(objs, bins, dim, i, lastBin, rb, sr) ==
  The({SpatialChop(objs, b, dim, i + 1, lastBin, sr.right, rb) :
         b \in {[bins EXCEPT ![i + 1].bounds = BoundBox_grow(@, sr.left.bounds)]}})

SpatialChopRef(objs, bins, dim, ref, rb) ==
  SpatialChop(objs, [bins EXCEPT ![SpatialFirstBin(rb, ref, dim) + 1].enter = @ + 1],
              dim, SpatialFirstBin(rb, ref, dim), SpatialLastBin(rb, ref, dim), ref, rb)

\* chop references into bins
RECURSIVE SpatialChopAll(_, _, _, _, _, _, _)
SpatialChopAll(objs, bins, dim, refs, from, to, rb) ==
  IF from >= to THEN bins
  ELSE The({SpatialChopAll(objs, b, dim, refs, from + 1, to, rb) :
              b \in {SpatialChopRef(objs, bins, dim, refs[from + 1], rb)}})

\* bounds, enter and exit of the bins lo .. hi - 1 together
RECURSIVE SpatialBinsMerge(_, _, _, _)
SpatialBinsMerge(bins, lo, hi, acc) ==
  IF lo >= hi THEN acc
  ELSE The({SpatialBinsMerge(bins, lo + 1, hi, a) : a \in
         {[bounds |-> BoundBox_grow(acc.bounds, bins[lo + 1].bounds),
           enter |-> acc.enter + bins[lo + 1].enter,
           exit |-> acc.exit + bins[lo + 1].exit]}})

NoSpatialBin == [bounds |-> BoundBox_empty, enter |-> 0, exit |-> 0]

SpatialSAH(nodeSAH, range, L, R) ==
  nodeSAH + BoundBox_safe_area(L.bounds) * primitive_cost(L.enter)
    + BoundBox_safe_area(R.bounds) * primitive_cost(range.size - L.exit)

SpatialSelect(ss, nodeSAH, range, dim, i, L, R) ==
  IF SpatialSAH(nodeSAH, range, L, R) < ss.sah
  THEN [sah |-> SpatialSAH(nodeSAH, range, L, R), dim |-> dim,
        pos |-> SpatialBinPos(range.bounds, dim, i)]
  ELSE ss

\* select best split plane of one dimension
RECURSIVE SpatialSweep(_, _, _, _, _, _)
SpatialSweep(ss, nodeSAH, range, dim, i, bins) ==
  IF i >= NUM_SPATIAL_BINS THEN ss
  ELSE The({SpatialSweep(SpatialSelect(ss, nodeSAH, range, dim, i, L, R),
                         nodeSAH, range, dim, i + 1, bins) :
              L \in {SpatialBinsMerge(bins, 0, i, NoSpatialBin)},
              R \in {SpatialBinsMerge(bins, i, NUM_SPATIAL_BINS, NoSpatialBin)}})

SpatialDim(objs, ss, nodeSAH, range, references, dim) ==
  The({SpatialSweep(ss, nodeSAH, range, dim, 1, bins) : bins \in
    {SpatialChopAll(objs, [b \in 1 .. NUM_SPATIAL_BINS |-> NoSpatialBin], dim,
                    references, range.start, RangeEnd(range), range.bounds)}})

\* the split plane a spatial split was not evaluated for (BVHSpatialSplit())
NoSpatialSplit == [sah |-> FLT_MAX, dim |-> 0, pos |-> 0]

BVHSpatialSplit(objs, range, references, nodeSAH) ==
  The({SpatialDim(objs, s1, nodeSAH, range, references, 2) : s1 \in
    {SpatialDim(objs, s0, nodeSAH, range, references, 1) : s0 \in
      {SpatialDim(objs, NoSpatialSplit, nodeSAH, range, references, 0)}}})

(***************************************************************************)
(* BVHMixedSplit (bvh/split.h), without an aligned space                   *)
(*                                                                         *)
(* builder is the BVHBuild the split reads params and spatial_min_overlap  *)
(* of.                                                                     *)
(***************************************************************************)
\* at most max_leaf_size primitives of the kind of the range
range_within_max_leaf_size(builder, range, references) == range.size <= builder.params.max_leaf_size

MAX_SPATIAL_DEPTH == 48

MixedOverlap(object) == BoundBox_intersect(object.left_bounds, object.right_bounds)

\* the spatial split evaluated at any level
MixedSpatial_any_level(objs, builder, range, level, nodeSAH, object) ==
  IF builder.params.use_spatial_split
     /\ BoundBox_safe_area(MixedOverlap(object)) >= builder.spatial_min_overlap
  THEN BVHSpatialSplit(objs, range, object.refs, nodeSAH)
  ELSE NoSpatialSplit

MixedSpatial(objs, builder, range, level, nodeSAH, object) ==
  IF builder.params.use_spatial_split /\ level < MAX_SPATIAL_DEPTH
     /\ BoundBox_safe_area(MixedOverlap(object)) >= builder.spatial_min_overlap
  THEN BVHSpatialSplit(objs, range, object.refs, nodeSAH)
  ELSE NoSpatialSplit

\* leaf SAH is the lowest => create leaf, whatever the size of the range
MixedDecide_no_leaf_size(builder, range, leafSAH, nodeSAH, object, spatial, minSAH) ==
  [object |-> object, spatial |-> spatial, leafSAH |-> leafSAH, nodeSAH |-> nodeSAH,
   minSAH |-> minSAH, bounds |-> range.bounds, no_split |-> (minSAH = leafSAH)]

MixedDecide(builder, range, leafSAH, nodeSAH, object, spatial, minSAH) ==
  [object |-> object, spatial |-> spatial, leafSAH |-> leafSAH, nodeSAH |-> nodeSAH,
   minSAH |-> minSAH, bounds |-> range.bounds,
   no_split |-> (minSAH = leafSAH /\ range_within_max_leaf_size(builder, range, object.refs))]

MixedCandidates(builder, range, leafSAH, nodeSAH, object, spatial) ==
  MixedDecide(builder, range, leafSAH, nodeSAH, object, spatial,
              Min2(Min2(leafSAH, object.sah), spatial.sah))

MixedObject(objs, builder, range, level, leafSAH, nodeSAH, object) ==
  The({MixedCandidates(builder, range, leafSAH, nodeSAH, object, spatial) :
         spatial \in {MixedSpatial(objs, builder, range, level, nodeSAH, object)}})

\* the constructor: object.refs is the reference array after its sorts
BVHMixedSplit(objs, builder, range, references, level) ==
  The({MixedObject(objs, builder, range, level,
                   BoundBox_safe_area(range.bounds) * primitive_cost(range.size),
                   BoundBox_safe_area(range.bounds) * node_cost(2), object) :
         object \in {BVHObjectSplit(range, references,
                                    BoundBox_safe_area(range.bounds) * node_cost(2))}})

MixedSplitObject(split, range, res) ==
  IF res.left.size = 0 \/ res.right.size = 0
  THEN BVHObjectSplit_split(split.object, res.refs, range)
  ELSE res

\* the spatial split applied whenever spatial splits are enabled
BVHMixedSplit_split_spatial_first(objs, builder, split, range) ==
  The({MixedSplitObject(split, range, res) : res \in
    {IF builder.params.use_spatial_split
     THEN BVHSpatialSplit_split(objs, split.object.refs, range,
                                split.spatial.dim, split.spatial.pos, FALSE)
     ELSE [refs |-> split.object.refs, left |-> BVHRange(BoundBox_empty, 0, 0),
           right |-> BVHRange(BoundBox_empty, 0, 0), dups |-> 0, kind |-> "none"]}})

\* BVHMixedSplit::split: returns [refs, left, right, dups]
BVHMixedSplit_split(objs, builder, split, range) ==
  The({MixedSplitObject(split, range, res) : res \in
    {IF builder.params.use_spatial_split /\ split.minSAH = split.spatial.sah
     THEN BVHSpatialSplit_split(objs, split.object.refs, range,
                                split.spatial.dim, split.spatial.pos, FALSE)
     ELSE [refs |-> split.object.refs, left |-> BVHRange(BoundBox_empty, 0, 0),
           right |-> BVHRange(BoundBox_empty, 0, 0), dups |-> 0, kind |-> "none"]}})

(***************************************************************************)
(* BVHBuild::add_references                                                *)
(***************************************************************************)
\* one reference per primitive of object index tob, as add_references makes them
RECURSIVE GeomRefsFrom(_, _, _, _, _)
GeomRefsFrom(objs, tob, i, seg, acc) ==
  LET geom == objs[tob + 1].geom
  IN  IF geom.kind = "mesh"
      THEN IF i >= Len(geom.items) THEN acc
           ELSE GeomRefsFrom(objs, tob, i + 1, 0,
                  Append(acc, BVHReference(PrimBounds(objs, i, tob, PRIMITIVE_TRIANGLE),
                                           i, tob, PRIMITIVE_TRIANGLE)))
      ELSE IF geom.kind = "hair"
      THEN IF i >= Len(geom.items) THEN acc
           ELSE IF seg >= geom.items[i + 1][2] - 1 THEN GeomRefsFrom(objs, tob, i + 1, 0, acc)
           ELSE LET type == PRIMITIVE_PACK_SEGMENT(PRIMITIVE_CURVE, seg)
                IN  GeomRefsFrom(objs, tob, i, seg + 1,
                      Append(acc, BVHReference(PrimBounds(objs, i, tob, type), i, tob, type)))
      ELSE IF i >= Len(geom.pts) THEN acc
           ELSE GeomRefsFrom(objs, tob, i + 1, 0,
                  Append(acc, BVHReference(PrimBounds(objs, i, tob, PRIMITIVE_POINT),
                                           i, tob, PRIMITIVE_POINT)))

\* references of a build over objs: instances get one reference per object,
\* other objects one reference per primitive
RECURSIVE SceneRefsFrom(_, _, _, _)
SceneRefsFrom(objs, instanced, tob, acc) ==
  IF tob >= Len(objs) THEN acc
  ELSE IF instanced
       THEN SceneRefsFrom(objs, instanced, tob + 1,
              Append(acc, BVHReference(Object_bounds(objs[tob + 1]), -1, tob, PRIMITIVE_NONE)))
       ELSE SceneRefsFrom(objs, instanced, tob + 1, GeomRefsFrom(objs, tob, 0, 0, acc))

SceneRefs(sc) == SceneRefsFrom(sc.objs, sc.instanced, 0, <<>>)

(***************************************************************************)
(* BVHBuild (bvh/build.h): the recursive builder                           *)
(*                                                                         *)
(* The tree is an arena of nodes, a node is [leaf, bounds, visibility, lo, *)
(* hi, c0, c1, level, forced, refs]; c0 and c1 are arena indexes, lo and   *)
(* hi the primitive slots of a leaf, forced tells a leaf made by the depth *)
(* limit, refs remembers the references a leaf was made of.  Tree          *)
(* rotations are off.  The recursion of build_node is a stack of           *)
(* frames [range, refs, level, parent, child], the top first; a frame of   *)
(* the spatial-split build owns its reference vector refs, the frames of   *)
(* the binning build share builder.references.  w is [b, p]: the builder   *)
(* and the arrays prim_type, prim_index, prim_object it holds references   *)
(* to.                                                                     *)
(***************************************************************************)
MAX_DEPTH == 64

LeafNode(bounds, visibility, lo, hi, level, forced, refs) ==
  [leaf |-> TRUE, bounds |-> bounds, visibility |-> visibility, lo |-> lo, hi |-> hi,
   c0 |-> -1, c1 |-> -1, level |-> level, forced |-> forced, refs |-> refs]

InnerNode(bounds, level) ==
  [leaf |-> FALSE, bounds |-> bounds, visibility |-> {}, lo |-> 0, hi |-> 0,
   c0 |-> -1, c1 |-> -1, level |-> level, forced |-> FALSE, refs |-> <<>>]

Frame(range, refs, level, parent, child) ==
  [range |-> range, refs |-> refs, level |-> level, parent |-> parent, child |-> child]

\* inner->children[child] = node
SetChild(nodes, parent, child, id) ==
  IF parent < 0 THEN nodes
  ELSE IF child = 0 THEN [nodes EXCEPT ![parent + 1].c0 = id]
  ELSE [nodes EXCEPT ![parent + 1].c1 = id]

\* the node of the frame on top of the stack joins the tree
AddNode(b, node) ==
  Append(SetChild(b.nodes, Head(b.stack).parent, Head(b.stack).child, Len(b.nodes)), node)

\* a leaf by the size of the range alone
small_enough_for_leaf_no_depth(params_, size, level) ==
  size <= params_.min_leaf_size

small_enough_for_leaf(params_, size, level) ==
  size <= params_.min_leaf_size \/ level >= params_.max_depth

RECURSIVE RefsVisibility(_, _, _, _, _)
RefsVisibility(objs, refs, from, to, acc) ==
  IF from >= to THEN acc
  ELSE The({RefsVisibility(objs, refs, from + 1, to, a) :
              a \in {acc \cup objs[refs[from + 1].prim_object + 1].visibility}})

\* value of an array slot that resize added and nothing wrote yet
Uninitialized == "uninitialized"

\* array resized to n slots: the old slots are kept, the new ones not set
ArrayResize(arr, n) ==
  [i \in 1 .. n |-> IF i <= Len(arr) THEN arr[i] ELSE Uninitialized]

\* the slots start .. start + Len(vals) - 1 set to vals, the array extended
\* when it is shorter
ArrayWrite(arr, start, vals) ==
  [i \in 1 .. Max2(Len(arr), start + Len(vals)) |->
     IF i > start /\ i <= start + Len(vals) THEN vals[i - start]
     ELSE IF i <= Len(arr) THEN arr[i] ELSE Uninitialized]

WritePrims(p, start_index, refs, range) ==
  [prim_type   |-> ArrayWrite(p.prim_type, start_index,
                     [i \in 1 .. range.size |-> refs[range.start + i].prim_type]),
   prim_index  |-> ArrayWrite(p.prim_index, start_index,
                     [i \in 1 .. range.size |-> refs[range.start + i].prim_index]),
   prim_object |-> ArrayWrite(p.prim_object, start_index,
                     [i \in 1 .. range.size |-> refs[range.start + i].prim_object])]

LeafAt(objs, w, range, refs, start_index, forced) ==
  [b |-> [w.b EXCEPT
            !.nodes = AddNode(w.b,
                        LeafNode(GrowRefs(refs, range.start, RangeEnd(range), BoundBox_empty),
                                 RefsVisibility(objs, refs, range.start, RangeEnd(range), {}),
                                 start_index, start_index + range.size,
                                 Head(w.b.stack).level, forced,
                                 SubSeq(refs, range.start + 1, RangeEnd(range)))),
            !.stack = Tail(@),
            !.spatial_free_index =
               IF w.b.params.use_spatial_split THEN @ + range.size ELSE @,
            !.last = [kind |-> "leaf", range |-> range, left |-> range, right |-> range,
                      before |-> <<>>, after |-> <<>>, dups |-> 0]],
   p |-> WritePrims(w.p, start_index, refs, range)]

\* a leaf over the references of the range; the primitive slots of the leaf
\* start at range.start, or at spatial_free_index in a spatial-split build
create_leaf_node(objs, w, range, refs, forced) ==
  LeafAt(objs, w, range, refs,
         IF w.b.params.use_spatial_split THEN w.b.spatial_free_index ELSE range.start,
         forced)

\* build_node returns nullptr: the frame ends without a node
BuildCancelled(w) ==
  [w EXCEPT !.b.stack = Tail(@), !.b.cancelled = TRUE,
            !.b.last = [kind |-> "cancelled", range |-> Head(w.b.stack).range,
                        left |-> Head(w.b.stack).range, right |-> Head(w.b.stack).range,
                        before |-> <<>>, after |-> <<>>, dups |-> 0]]

\* the inner node of a split range and the frames of its two children, the
\* left child on top
BinningInner(w, frame, res) ==
  [w EXCEPT
     !.b.nodes = AddNode(w.b, InnerNode(frame.range.bounds, frame.level)),
     !.b.references = res.prims,
     !.b.stack = <<Frame(res.left, <<>>, frame.level + 1, Len(w.b.nodes), 0),
                   Frame(res.right, <<>>, frame.level + 1, Len(w.b.nodes), 1)>> \o Tail(@),
     !.b.last = [kind |-> "binned", range |-> frame.range, left |-> res.left,
                 right |-> res.right, before |-> w.b.references, after |-> res.prims,
                 dups |-> 0]]

\* build_node(const BVHObjectBinning &range, level)
build_node_binning(objs, w, frame) ==
  IF small_enough_for_leaf(w.b.params, frame.range.size, frame.level)
  THEN create_leaf_node(objs, w, frame.range, w.b.references,
                        frame.range.size > w.b.params.min_leaf_size)
  ELSE IF /\ range_within_max_leaf_size(w.b, frame.range, w.b.references)
          /\ sah_primitive_cost * frame.range.leafSAH
               < sah_node_cost * BoundBox_half_area(frame.range.bounds)
                   + sah_primitive_cost * frame.range.splitSAH
  THEN create_leaf_node(objs, w, frame.range, w.b.references, FALSE)
  ELSE The({BinningInner(w, frame, res) :
              res \in {BVHObjectBinning_split(frame.range, w.b.references)}})

\* the right child gets the references of its range in a vector of its own
SpatialInner(w, frame, res) ==
  [w EXCEPT
     !.b.nodes = AddNode(w.b, InnerNode(frame.range.bounds, frame.level)),
     !.b.stack = <<Frame(res.left, res.refs, frame.level + 1, Len(w.b.nodes), 0),
                   Frame([res.right EXCEPT !.start = 0],
                         SubSeq(res.refs, res.right.start + 1, RangeEnd(res.right)),
                         frame.level + 1, Len(w.b.nodes), 1)>> \o Tail(@),
     !.b.last = [kind |-> res.kind, range |-> frame.range, left |-> res.left,
                 right |-> res.right, before |-> frame.refs, after |-> res.refs,
                 dups |-> res.dups]]

SpatialDecide(objs, w, frame, split) ==
  IF split.no_split
  THEN create_leaf_node(objs, w, frame.range, split.object.refs, FALSE)
  ELSE The({SpatialInner(w, frame, res) :
              res \in {BVHMixedSplit_split(objs, w.b, split, frame.range)}})

\* build_node(const BVHRange &range, references, level, storage)
build_node_spatial(objs, w, frame) ==
  IF small_enough_for_leaf(w.b.params, frame.range.size, frame.level)
  THEN create_leaf_node(objs, w, frame.range, frame.refs,
                        frame.range.size > w.b.params.min_leaf_size)
  ELSE The({SpatialDecide(objs, w, frame, split) :
              split \in {BVHMixedSplit(objs, w.b, frame.range, frame.refs, frame.level)}})

\* one call of build_node: the frame on top of the stack
build_node(objs, w, cancel) ==
  IF cancel THEN BuildCancelled(w)
  ELSE IF w.b.params.use_spatial_split THEN build_node_spatial(objs, w, Head(w.b.stack))
  ELSE build_node_binning(objs, w, Head(w.b.stack))

NoLast == [kind |-> "none", range |-> BVHRange(BoundBox_empty, 0, 0),
           left |-> BVHRange(BoundBox_empty, 0, 0), right |-> BVHRange(BoundBox_empty, 0, 0),
           before |-> <<>>, after |-> <<>>, dups |-> 0]

\* no builder: BVH2::build has returned and its local bvh_build is destroyed
NoBuild ==
  [params |-> [use_spatial_split |-> FALSE], references |-> <<>>, spatial_free_index |-> 0,
   spatial_min_overlap |-> 0, stack |-> <<>>, nodes |-> <<>>, cancelled |-> FALSE,
   last |-> NoLast, alive |-> FALSE]

\* a builder kept from one build to the next with what the last build left
\* in its reference array
BVHBuild_stale(params_) ==
  [bld EXCEPT !.params = params_, !.stack = <<>>, !.nodes = <<>>, !.cancelled = FALSE,
              !.last = NoLast, !.alive = TRUE]

\* the builder object BVH2::build constructs anew for every build
BVHBuild(params_) ==
  [params |-> params_, references |-> <<>>, spatial_free_index |-> 0,
   spatial_min_overlap |-> 0, stack |-> <<>>, nodes |-> <<>>, cancelled |-> FALSE,
   last |-> NoLast, alive |-> TRUE]

\* the frame of the root range
RootFrame(params_, root, references) ==
  IF params_.use_spatial_split
  THEN Frame(BVHRangeC(root.geom, root.cent, 0, Len(references)), references, 0, -1, 0)
  ELSE Frame(BVHObjectBinning(BVHRangeC(root.geom, root.cent, 0, Len(references)),
                              references),
             <<>>, 0, -1, 0)

RunInit(w, references, root) ==
  [b |-> [w.b EXCEPT
            !.references = references,
            !.spatial_min_overlap =
               BoundBox_safe_area(root.geom) * w.b.params.spatial_split_alpha,
            !.spatial_free_index = 0,
            !.stack = <<RootFrame(w.b.params, root, references)>>],
   p |-> [prim_type   |-> ArrayResize(w.p.prim_type, Len(references)),
          prim_index  |-> ArrayResize(w.p.prim_index, Len(references)),
          prim_object |-> ArrayResize(w.p.prim_object, Len(references))]]

RunReferences(w, references) ==
  RunInit(w, references,
          BinGrowRange(references, 0, Len(references),
                       [geom |-> BoundBox_empty, cent |-> BoundBox_empty]))

\* run() up to the first build_node: add_references appends the references
\* of the objects to builder.references, then the arrays are sized
run_begin(sc, w, cancel) ==
  IF cancel
  THEN [w EXCEPT !.b.references = @ \o SceneRefs(sc), !.b.cancelled = TRUE]
  ELSE RunReferences(w, w.b.references \o SceneRefs(sc))

\* BVHNode::update_visibility: an inner node is visible to what its children
\* are visible to (children follow their parent in the arena)
RECURSIVE update_visibility(_, _)
update_visibility(nodes, i) ==
  IF i < 1 THEN nodes
  ELSE update_visibility(
         IF nodes[i].leaf THEN nodes
         ELSE [nodes EXCEPT ![i].visibility =
                 nodes[nodes[i].c0 + 1].visibility \cup nodes[nodes[i].c1 + 1].visibility],
         i - 1)

\* the end of run(): the tree is deleted if the build was canceled
run_end(b, cancel) ==
  IF cancel \/ b.cancelled THEN [b EXCEPT !.nodes = <<>>, !.cancelled = TRUE]
  ELSE [b EXCEPT !.nodes = update_visibility(b.nodes, Len(b.nodes))]

(***************************************************************************)
(* BVH2 (bvh/bvh2.cpp): packing and refit                                  *)
(*                                                                         *)
(* pk is the PackedBVH.  An int4 is a 4-tuple; __float_as_int keeps the    *)
(* bits of a float, so a packed coordinate is the coordinate.  Visibility  *)
(* masks are sets of flags.  A transform is its translation.               *)
(***************************************************************************)
BVH_NODE_SIZE == 4
BVH_UNALIGNED_NODE_SIZE == 7
BVH_NODE_LEAF_SIZE == 1

PATH_RAY_NODE_UNALIGNED == "node_unaligned"

\* std::copy_n(data, n, &arr[idx])
CopyN(arr, idx, data) ==
  [i \in 1 .. Len(arr) |-> IF idx < i /\ i <= idx + Len(data) THEN data[i - idx] ELSE arr[i]]

\* BVHStackEntry::encodeIdx
\* the index of a leaf negated without the complement
encodeIdx_negate(tree, e) == IF tree[e.node + 1].leaf THEN -e.idx ELSE e.idx

encodeIdx(tree, e) == IF tree[e.node + 1].leaf THEN -e.idx - 1 ELSE e.idx

pack_aligned_node(pk, idx, b0, b1, c0, c1, visibility0, visibility1) ==
  [pk EXCEPT !.nodes = CopyN(@, idx,
     << <<visibility0 \ {PATH_RAY_NODE_UNALIGNED}, visibility1 \ {PATH_RAY_NODE_UNALIGNED},
          c0, c1>>,
        <<b0.min[1], b1.min[1], b0.max[1], b1.max[1]>>,
        <<b0.min[2], b1.min[2], b0.max[2], b1.max[2]>>,
        <<b0.min[3], b1.min[3], b0.max[3], b1.max[3]>> >>)]

\* BVHUnaligned::compute_node_transform: the rows x, y, z of the space moved
\* to the corner of the bounds and scaled by 1 / extent
compute_node_transform(bounds, aligned_space) ==
  [d \in 1 .. 3 |-> <<bounds.max[d] - bounds.min[d], aligned_space[d] - bounds.min[d]>>]

transform_identity == <<0, 0, 0>>

pack_unaligned_node(pk, idx, aligned_space0, aligned_space1, b0, b1, c0, c1, visibility0, visibility1) ==
  [pk EXCEPT !.nodes = CopyN(@, idx,
     << <<visibility0 \cup {PATH_RAY_NODE_UNALIGNED},
          visibility1 \cup {PATH_RAY_NODE_UNALIGNED}, c0, c1>> >>
       \o compute_node_transform(b0, aligned_space0)
       \o compute_node_transform(b1, aligned_space1))]

pack_leaf(pk, idx, leaf) ==
  [pk EXCEPT !.leaf_nodes = CopyN(@, idx,
     << <<IF leaf.hi - leaf.lo = 1 /\ pk.prim_index[leaf.lo + 1] = -1
          THEN -leaf.lo - 1 ELSE leaf.lo,
          IF leaf.hi - leaf.lo = 1 /\ pk.prim_index[leaf.lo + 1] = -1 THEN 0 ELSE leaf.hi,
          leaf.visibility,
          IF leaf.hi - leaf.lo # 0 THEN pk.prim_type[leaf.lo + 1] ELSE 0>> >>)]

\* pack_inner for a tree without unaligned nodes
pack_inner(tree, pk, e, e0, e1) ==
  pack_aligned_node(pk, e.idx, tree[e0.node + 1].bounds, tree[e1.node + 1].bounds,
                    encodeIdx(tree, e0), encodeIdx(tree, e1),
                    tree[e0.node + 1].visibility, tree[e1.node + 1].visibility)

BVHStackEntry(n, i) == [node |-> n, idx |-> i]

RECURSIVE PackLoop(_, _, _, _, _)

\* idx[1] of the inner node e, the two pushes and pack_inner
PackChild1(tree, pk, stack, e, idx0, nextNodeIdx, nextLeafNodeIdx) ==
  IF tree[tree[e.node + 1].c1 + 1].leaf
  THEN The({PackLoop(tree, p, s, nextNodeIdx, nextLeafNodeIdx + 1) :
              p \in {pack_inner(tree, pk, e, BVHStackEntry(tree[e.node + 1].c0, idx0),
                                BVHStackEntry(tree[e.node + 1].c1, nextLeafNodeIdx))},
              s \in {stack \o <<BVHStackEntry(tree[e.node + 1].c0, idx0),
                                BVHStackEntry(tree[e.node + 1].c1, nextLeafNodeIdx)>>}})
  ELSE The({PackLoop(tree, p, s, nextNodeIdx + BVH_NODE_SIZE, nextLeafNodeIdx) :
              p \in {pack_inner(tree, pk, e, BVHStackEntry(tree[e.node + 1].c0, idx0),
                                BVHStackEntry(tree[e.node + 1].c1, nextNodeIdx))},
              s \in {stack \o <<BVHStackEntry(tree[e.node + 1].c0, idx0),
                                BVHStackEntry(tree[e.node + 1].c1, nextNodeIdx)>>}})

\* idx[0] taken without advancing nextLeafNodeIdx or nextNodeIdx
PackChild0_no_advance(tree, pk, stack, e, nextNodeIdx, nextLeafNodeIdx) ==
  IF tree[tree[e.node + 1].c0 + 1].leaf
  THEN PackChild1(tree, pk, stack, e, nextLeafNodeIdx, nextNodeIdx, nextLeafNodeIdx)
  ELSE PackChild1(tree, pk, stack, e, nextNodeIdx, nextNodeIdx, nextLeafNodeIdx)

\* idx[0] of the inner node e
PackChild0(tree, pk, stack, e, nextNodeIdx, nextLeafNodeIdx) ==
  IF tree[tree[e.node + 1].c0 + 1].leaf
  THEN PackChild1(tree, pk, stack, e, nextLeafNodeIdx, nextNodeIdx, nextLeafNodeIdx + 1)
  ELSE PackChild1(tree, pk, stack, e, nextNodeIdx, nextNodeIdx + BVH_NODE_SIZE,
                  nextLeafNodeIdx)

\* while (!stack.empty()): returns the pack and nextNodeIdx
PackLoop(tree, pk, stack, nextNodeIdx, nextLeafNodeIdx) ==
  IF stack = <<>> THEN [pk |-> pk, nextNodeIdx |-> nextNodeIdx]
  ELSE IF tree[stack[Len(stack)].node + 1].leaf
  THEN The({PackLoop(tree, p, s, nextNodeIdx, nextLeafNodeIdx) :
              p \in {pack_leaf(pk, stack[Len(stack)].idx, tree[stack[Len(stack)].node + 1])},
              s \in {SubSeq(stack, 1, Len(stack) - 1)}})
  ELSE PackChild0(tree, pk, SubSeq(stack, 1, Len(stack) - 1), stack[Len(stack)],
                  nextNodeIdx, nextLeafNodeIdx)

\* getSubtreeSize(BVH_STAT_LEAF_COUNT) and the count of inner nodes
NumLeafNodes(tree) == Cardinality({i \in 1 .. Len(tree) : tree[i].leaf})
NumInnerNodes(tree) == Cardinality({i \in 1 .. Len(tree) : ~tree[i].leaf})

PackRoot(tree, res, node_size) ==
  [pk |-> [res.pk EXCEPT !.root_index = IF tree[1].leaf THEN -1 ELSE 0],
   size_ok |-> (node_size = res.nextNodeIdx)]

\* pack_nodes of a bottom-level structure: returns the pack and whether
\* assert(node_size == nextNodeIdx) holds
pack_nodes(tree, pk) ==
  The({PackRoot(tree, res, NumInnerNodes(tree) * BVH_NODE_SIZE) : res \in
    {PackLoop(tree,
       [pk EXCEPT !.nodes = ArrayResize(<<>>, NumInnerNodes(tree) * BVH_NODE_SIZE),
                  !.leaf_nodes = ArrayResize(<<>>, NumLeafNodes(tree) * BVH_NODE_LEAF_SIZE)],
       <<BVHStackEntry(0, 0)>>,
       IF tree[1].leaf THEN 0 ELSE BVH_NODE_SIZE,
       IF tree[1].leaf THEN 1 ELSE 0)}})

pack_primitives(objs, pk) ==
  [pk EXCEPT !.prim_visibility =
     [i \in 1 .. Len(pk.prim_index) |->
        IF pk.prim_index[i] # -1 THEN objs[pk.prim_object[i] + 1].visibility ELSE {}]]

\* r is [pk, bbox, visibility], what refit_node leaves in the pack and in
\* its two reference arguments
RECURSIVE refit_primitives(_, _, _, _, _)
refit_primitives(objs, pk, start, end, r) ==
  IF start >= end THEN r
  ELSE The({refit_primitives(objs, pk, start + 1, end, r1) : r1 \in
         {[r EXCEPT !.bbox = BoundBox_grow(@, PrimBounds(objs, pk.prim_index[start + 1],
                                                         pk.prim_object[start + 1],
                                                         pk.prim_type[start + 1])),
                    !.visibility = @ \cup objs[pk.prim_object[start + 1] + 1].visibility]}})

\* the leaf written back without its type word
RefitLeaf_no_type(pk, idx, r) ==
  [r EXCEPT !.pk.leaf_nodes = CopyN(@, idx,
     << <<pk.leaf_nodes[idx + 1][1], pk.leaf_nodes[idx + 1][2], r.visibility, 0>> >>)]

RefitLeaf(pk, idx, r) ==
  [r EXCEPT !.pk.leaf_nodes = CopyN(@, idx,
     << <<pk.leaf_nodes[idx + 1][1], pk.leaf_nodes[idx + 1][2], r.visibility,
          pk.leaf_nodes[idx + 1][4]>> >>)]

\* the inner node packed again with the box of its first child for both
RefitPack_first_child_twice(pk, idx, bbox, data0, r0, r1) ==
  [pk |-> pack_aligned_node(pk, idx, r0.bbox, r0.bbox, data0[3], data0[4],
                            r0.visibility, r1.visibility),
   bbox |-> BoundBox_grow(BoundBox_grow(bbox, r0.bbox), r1.bbox),
   visibility |-> r0.visibility \cup r1.visibility]

\* the inner node packed again from the boxes of its refitted children
RefitPack(pk, idx, bbox, data0, r0, r1) ==
  [pk |-> IF PATH_RAY_NODE_UNALIGNED \in data0[1]
          THEN pack_unaligned_node(pk, idx, transform_identity, transform_identity,
                                   r0.bbox, r1.bbox, data0[3], data0[4],
                                   r0.visibility, r1.visibility)
          ELSE pack_aligned_node(pk, idx, r0.bbox, r1.bbox, data0[3], data0[4],
                                 r0.visibility, r1.visibility),
   bbox |-> BoundBox_grow(BoundBox_grow(bbox, r0.bbox), r1.bbox),
   visibility |-> r0.visibility \cup r1.visibility]

RECURSIVE refit_node(_, _, _, _, _)

RefitChild1(objs, idx, bbox, data0, r0, r1) ==
  RefitPack(r1.pk, idx, bbox, data0, r0, r1)

RefitChild0(objs, idx, bbox, data0, r0) ==
  The({RefitChild1(objs, idx, bbox, data0, r0, r1) : r1 \in
    {refit_node(objs, r0.pk, IF data0[4] < 0 THEN -data0[4] - 1 ELSE data0[4],
                data0[4] < 0, BoundBox_empty)}})

refit_node(objs, pk, idx, leaf, bbox) ==
  IF leaf
  THEN The({RefitLeaf(pk, idx, r) : r \in
         {refit_primitives(objs, pk, pk.leaf_nodes[idx + 1][1], pk.leaf_nodes[idx + 1][2],
                           [pk |-> pk, bbox |-> bbox, visibility |-> {}])}})
  ELSE The({RefitChild0(objs, idx, bbox, pk.nodes[idx + 1], r0) : r0 \in
         {refit_node(objs, pk,
                     IF pk.nodes[idx + 1][3] < 0 THEN -pk.nodes[idx + 1][3] - 1
                     ELSE pk.nodes[idx + 1][3],
                     pk.nodes[idx + 1][3] < 0, BoundBox_empty)}})

refit_nodes(objs, pk) == refit_node(objs, pk, 0, pk.root_index = -1, BoundBox_empty).pk

(***************************************************************************)
(* Scenes the bounded checks draw their inputs from                        *)
(***************************************************************************)
Geom(kind, pts, radius, items) ==
  [kind |-> kind, pts |-> pts, radius |-> radius, items |-> items]

\* the ray types an object is visible to (Object::visibility_for_tracing)
Object(geom, tfm) == [geom |-> geom, tfm |-> tfm, visibility |-> {"camera", "shadow"}]

MeshA == Geom("mesh", << <<0, 0, 0>>, <<8, 0, 0>>, <<0, 8, 0>>, <<8, 8, 4>> >>, <<>>,
              << <<0, 1, 2>>, <<1, 3, 2>> >>)
MeshB == Geom("mesh", << <<0, 0, 0>>, <<2, 0, 0>>, <<0, 2, 2>>, <<6, 4, 0>>,
                         <<8, 4, 2>>, <<6, 8, 0>> >>, <<>>,
              << <<0, 1, 2>>, <<3, 4, 5>>, <<1, 3, 2>> >>)
HairA == Geom("hair", << <<0, 2, 2>>, <<4, 6, 2>>, <<8, 2, 4>> >>, <<2, 2, 1>>,
              << <<0, 3>> >>)
PointsA == Geom("pointcloud", << <<2, 2, 2>>, <<6, 5, 2>> >>, <<2, 3>>, <<>>)

\* a sliver along the diagonal and three small triangles: a spatial split
\* is cheaper here than any object split
MeshS == Geom("mesh", << <<0, 0, 0>>, <<16, 16, 0>>, <<16, 14, 0>>,
                         <<0, 2, 0>>, <<2, 2, 0>>, <<0, 4, 0>>,
                         <<2, 0, 0>>, <<4, 0, 0>>, <<4, 2, 0>>,
                         <<12, 14, 0>>, <<14, 16, 0>>, <<12, 16, 0>> >>, <<>>,
              << <<0, 1, 2>>, <<3, 4, 5>>, <<6, 7, 8>>, <<9, 10, 11>> >>)
\* a long curve along the diagonal and a short curve of three segments
HairS == Geom("hair", << <<0, 0, 0>>, <<16, 16, 0>>,
                         <<0, 2, 0>>, <<2, 2, 0>>, <<2, 4, 0>>, <<4, 4, 0>> >>,
              <<1, 1, 1, 1, 1, 1>>, << <<0, 2>>, <<2, 4>> >>)

Scene(objs, instanced) == [objs |-> objs, instanced |-> instanced]

SpatialScenes ==
  { Scene(<<Object(MeshA, ZeroTfm)>>, FALSE),
    Scene(<<Object(HairA, ZeroTfm)>>, FALSE),
    Scene(<<Object(PointsA, ZeroTfm)>>, FALSE),
    Scene(<<Object(MeshA, ZeroTfm), Object(PointsA, ZeroTfm)>>, FALSE),
    Scene(<<Object(MeshA, ZeroTfm), Object(MeshB, <<2, 0, 2>>)>>, TRUE),
    Scene(<<Object(PointsA, ZeroTfm), Object(HairA, <<0, 2, 0>>)>>, TRUE) }

\* PackedBVH::PackedBVH
PackedBVH ==
  [nodes |-> <<>>, leaf_nodes |-> <<>>, object_node |-> <<>>, prim_type |-> <<>>,
   prim_visibility |-> <<>>, prim_index |-> <<>>, prim_object |-> <<>>, root_index |-> 0]

NoHist ==
  [builds |-> 0, cancels |-> 0, refits |-> 0, outcome |-> "none", prev |-> PackedBVH,
   has_first |-> FALSE, first |-> PackedBVH, built |-> PackedBVH, dups |-> 0,
   after_cancel |-> FALSE, after_partial |-> FALSE, size_ok |-> TRUE, checked |-> FALSE]

\* no threaded build
NoPool == [queue |-> <<>>, thr |-> <<>>, phase |-> "none", pushed |-> 0, dropped |-> 0]

\* no instance merge
NoTop == [phase |-> "none"]

buildVars == <<params, progress, pack, bld, pc, hist, tp, top>>

BuildIdle ==
  /\ params = [use_spatial_split |-> FALSE]
  /\ progress = [cancel |-> FALSE]
  /\ pack = PackedBVH
  /\ bld = NoBuild
  /\ pc = "idle"
  /\ hist = NoHist
  /\ tp = NoPool
  /\ top = NoTop

(***************************************************************************)
(* SpecSpatial: up to MaxSpatialSteps spatial splits applied to the        *)
(* reference array, any range, any axis and any plane position, and then   *)
(* split_reference on one reference of the array they leave                *)
(***************************************************************************)
MaxPos == 7
MaxSpatialSteps == 1
MaxSpatialRefs == 4

SeqRange(s) == {s[i] : i \in 1 .. Len(s)}

NoSplit == [ref |-> BVHReference(BoundBox_empty, 0, 0, 0),
            left |-> BVHReference(BoundBox_empty, 0, 0, 0),
            right |-> BVHReference(BoundBox_empty, 0, 0, 0)]

SpatialInit ==
  /\ scene \in SpatialScenes
  /\ sp = [refs |-> SceneRefs(scene), prev |-> SceneRefs(scene), steps |-> 0,
           op |-> "init", dups |-> 0, sr |-> NoSplit]
  /\ BuildIdle

SpAfterSplit(res) ==
  [refs |-> res.refs, prev |-> sp.refs, steps |-> sp.steps + 1,
   op |-> "split", dups |-> res.dups, sr |-> NoSplit]

SpAfterSplitReference(ref, res) ==
  [sp EXCEPT !.op = "split_reference",
             !.sr = [ref |-> ref, left |-> res.left, right |-> res.right]]

\* BVHSpatialSplit::split on the range [start, start + size) with the
\* plane (dim, pos) its constructor selected
SpatialSplitRange ==
  /\ sp.op # "split_reference" /\ sp.steps < MaxSpatialSteps
  /\ \E start \in 0 .. Len(sp.refs) - 1, dim \in Dims, pos \in 1 .. MaxPos :
       \E size \in 1 .. Len(sp.refs) - start :
         /\ sp' = SpAfterSplit(BVHSpatialSplit_split(scene.objs, sp.refs,
                                                     BVHRange(BoundBox_empty, start, size),
                                                     dim, pos, FALSE))
         /\ Len(sp'.refs) <= MaxSpatialRefs
  /\ UNCHANGED <<scene, buildVars>>

\* split_reference on one reference of the array; the array is left as it
\* is, so nothing new follows a second call.  The references the last
\* split left as they were have been split in the state before it.
SpatialSplitReference ==
  /\ sp.op # "split_reference"
  /\ \E i \in 0 .. Len(sp.refs) - 1, dim \in Dims, pos \in 0 .. MaxPos + 1 :
       /\ sp.steps = 0 \/ sp.refs[i + 1] \notin SeqRange(sp.prev)
       /\ sp' = SpAfterSplitReference(sp.refs[i + 1],
                                      split_reference(scene.objs, sp.refs[i + 1], dim, pos))
  /\ UNCHANGED <<scene, buildVars>>

SpatialNext == SpatialSplitRange \/ SpatialSplitReference

SpecSpatial == SpatialInit /\ [][SpatialNext]_vars

(***************************************************************************)
(* Spec: BVH2::build and BVH2::refit on one packed structure, with the     *)
(* cancel flag of Progress set from another thread at any moment.  pc is   *)
(* the position inside BVH2::build or BVH2::refit; bld is the BVHBuild     *)
(* local of BVH2::build, dead (alive = FALSE) once build has returned.     *)
(* hist remembers what the properties compare with: the packed structure   *)
(* at the entry of the build (prev), after the first completed build       *)
(* (first) and after the last completed build (built).                     *)
(***************************************************************************)
MaxBuilds == 2
MaxCancels == 1
MaxRefits == 1

BuildScenes ==
  { Scene(<<Object(MeshA, ZeroTfm)>>, FALSE),
    Scene(<<Object(MeshB, ZeroTfm)>>, FALSE),
    Scene(<<Object(HairA, ZeroTfm)>>, FALSE),
    Scene(<<Object(PointsA, ZeroTfm)>>, FALSE),
    Scene(<<Object(MeshS, ZeroTfm)>>, FALSE),
    Scene(<<Object(HairS, ZeroTfm)>>, FALSE),
    Scene(<<Object(MeshA, ZeroTfm), Object(PointsA, ZeroTfm)>>, FALSE) }

BuildParams ==
  [use_spatial_split : BOOLEAN, max_leaf_size : {1, 2}, min_leaf_size : {1},
   max_depth : {1, MAX_DEPTH}, spatial_split_alpha : {0}, top_level : {FALSE},
   use_unaligned_nodes : {FALSE}]

Init ==
  /\ scene \in BuildScenes
  /\ params \in BuildParams
  /\ progress = [cancel |-> FALSE]
  /\ pack = PackedBVH
  /\ bld = NoBuild
  /\ pc = "idle"
  /\ hist = NoHist
  /\ tp = NoPool
  /\ top = NoTop
  /\ sp = [refs |-> <<>>, prev |-> <<>>, steps |-> 0, op |-> "init", dups |-> 0,
           sr |-> NoSplit]

\* a poll that never sees the flag
get_cancel_never(prog) == FALSE

\* Progress::get_cancel
get_cancel(prog) == prog.cancel

\* the builder and the three arrays of the packed structure it writes
World == [b |-> bld, p |-> [prim_type |-> pack.prim_type, prim_index |-> pack.prim_index,
                            prim_object |-> pack.prim_object]]

SetWorld(w) ==
  /\ bld' = w.b
  /\ pack' = [pack EXCEPT !.prim_type = w.p.prim_type, !.prim_index = w.p.prim_index,
                          !.prim_object = w.p.prim_object]

\* BVH2::build up to the first step of BVHBuild::run
BuildBegin ==
  /\ pc = "idle" /\ hist.builds < MaxBuilds
  /\ \E w \in {run_begin(scene, [b |-> BVHBuild(params), p |-> World.p],
                         get_cancel(progress))} : SetWorld(w)
  /\ pc' = "run"
  /\ hist' = [hist EXCEPT !.builds = @ + 1, !.prev = pack, !.outcome = "building",
                          !.dups = 0, !.checked = FALSE,
                          !.after_cancel = (hist.outcome = "cancelled"),
                          !.after_partial = (hist.outcome = "cancelled"
                                             /\ ToString(pack) # ToString(hist.prev))]
  /\ UNCHANGED <<top, tp, scene, sp, params, progress>>

\* one call of build_node
BuildNode ==
  /\ pc = "run" /\ bld.stack # <<>>
  /\ \E w \in {build_node(scene.objs, World, get_cancel(progress))} :
       /\ SetWorld(w)
       /\ hist' = [hist EXCEPT !.dups = @ + w.b.last.dups]
  /\ UNCHANGED <<top, tp, scene, sp, params, progress, pc>>

\* the end of BVHBuild::run
RunEnd ==
  /\ pc = "run" /\ bld.stack = <<>>
  /\ bld' = run_end(bld, get_cancel(progress))
  /\ pc' = "build_1"
  /\ UNCHANGED <<top, tp, scene, sp, params, progress, pack, hist>>

\* BVH2::build returns on an observed cancel
BuildReturn ==
  /\ pc' = "idle"
  /\ bld' = [bld EXCEPT !.alive = FALSE]
  /\ hist' = [hist EXCEPT !.outcome = "cancelled"]
  /\ UNCHANGED <<top, tp, scene, sp, params, progress, pack>>

\* the check after run
BuildCheck1 ==
  /\ pc = "build_1"
  /\ IF get_cancel(progress) THEN BuildReturn
     ELSE /\ pc' = "build_2"
          /\ UNCHANGED <<top, tp, scene, sp, params, progress, pack, bld, hist>>

\* the check before pack_primitives, and pack_primitives
BuildCheck2 ==
  /\ pc = "build_2"
  /\ IF get_cancel(progress) THEN BuildReturn
     ELSE /\ pc' = "build_3"
          /\ pack' = pack_primitives(scene.objs, pack)
          /\ UNCHANGED <<top, tp, scene, sp, params, progress, bld, hist>>

\* the last check of BVH2::build and pack_nodes
BVH2_build_pack_nodes_unchecked(tree, pk, cancel) ==
  pack_nodes(tree, pk)

BVH2_build_pack_nodes(tree, pk, cancel) ==
  IF cancel THEN [pk |-> pk, size_ok |-> TRUE]
  ELSE pack_nodes(tree, pk)

\* what the history keeps of the end of a build: cancelled is the flag of
\* Progress at the last check
BuildPacked(r, cancelled) ==
  /\ pack' = r.pk
  /\ hist' = [hist EXCEPT !.outcome = IF cancelled THEN "cancelled" ELSE "packed",
                          !.has_first = @ \/ ~cancelled,
                          !.first = IF ~cancelled /\ ~hist.has_first THEN r.pk ELSE @,
                          !.built = IF cancelled THEN @ ELSE r.pk,
                          !.size_ok = r.size_ok,
                          !.checked = TRUE]

BuildCheck3 ==
  /\ pc = "build_3"
  /\ \E r \in {BVH2_build_pack_nodes(bld.nodes, pack, get_cancel(progress))} :
       BuildPacked(r, progress.cancel)
  /\ pc' = "idle"
  /\ bld' = [bld EXCEPT !.alive = FALSE]
  /\ UNCHANGED <<top, tp, scene, sp, params, progress>>

\* BVH2::refit up to its check: pack_primitives
RefitBegin ==
  /\ pc = "idle" /\ hist.outcome \in {"packed", "refitted"} /\ hist.refits < MaxRefits
  /\ pack' = pack_primitives(scene.objs, pack)
  /\ pc' = "refit"
  /\ hist' = [hist EXCEPT !.refits = @ + 1]
  /\ UNCHANGED <<top, tp, scene, sp, params, progress, bld>>

\* the check of BVH2::refit and refit_nodes
RefitNodes ==
  /\ pc = "refit"
  /\ IF get_cancel(progress)
     THEN UNCHANGED <<pack, hist>>
     ELSE /\ pack' = refit_nodes(scene.objs, pack)
          /\ hist' = [hist EXCEPT !.outcome = "refitted"]
  /\ pc' = "idle"
  /\ UNCHANGED <<top, tp, scene, sp, params, progress, bld>>

\* Progress::set_cancel, from any thread at any moment
SetCancel ==
  /\ ~progress.cancel /\ hist.cancels < MaxCancels
  /\ progress' = [progress EXCEPT !.cancel = TRUE]
  /\ hist' = [hist EXCEPT !.cancels = @ + 1]
  /\ UNCHANGED <<top, tp, scene, sp, params, pack, bld, pc>>

\* Progress::reset, between two updates
ProgressReset ==
  /\ pc = "idle" /\ progress.cancel
  /\ progress' = [progress EXCEPT !.cancel = FALSE]
  /\ UNCHANGED <<top, tp, scene, sp, params, pack, bld, pc, hist>>

Next ==
  \/ BuildBegin \/ BuildNode \/ RunEnd \/ BuildCheck1 \/ BuildCheck2 \/ BuildCheck3
  \/ RefitBegin \/ RefitNodes \/ SetCancel \/ ProgressReset

Spec == Init /\ [][Next]_vars

(***************************************************************************)
(* SpecPool: the threads of a threaded build.  A range is its size; thread *)
(* 0 is the caller of BVHBuild::run, the others are the workers of the     *)
(* task pool.  A thread holds the stack of the ranges its current call of  *)
(* build_node has still to build; the call of build_node on a range is two *)
(* steps, the poll of the cancel flag and the split, and the flag may be   *)
(* set between them.  seen is the flag as it stood at the last poll.       *)
(***************************************************************************)
THREAD_TASK_SIZE == 3
NumWorkers == 2
MaxRange == 5

PoolThreads == 1 .. NumWorkers + 1

Caller == 1

PoolThread(stack, state, seen) == [stack |-> stack, state |-> state, seen |-> seen]

\* BVHBuild::run calls build_node on the root range
PoolRun(n) ==
  [queue |-> <<>>,
   thr |-> [t \in PoolThreads |->
              IF t = Caller THEN PoolThread(<<n>>, "poll", FALSE)
              ELSE PoolThread(<<>>, "poll", FALSE)],
   phase |-> "run", pushed |-> 0, dropped |-> 0]

PoolInit ==
  /\ scene = Scene(<<Object(MeshA, ZeroTfm)>>, FALSE)
  /\ sp = [refs |-> <<>>, prev |-> <<>>, steps |-> 0, op |-> "init", dups |-> 0,
           sr |-> NoSplit]
  /\ params = [use_spatial_split |-> FALSE]
  /\ progress = [cancel |-> FALSE]
  /\ pack = PackedBVH
  /\ bld = NoBuild
  /\ pc = "idle"
  /\ hist = NoHist
  /\ top = NoTop
  /\ \E n \in 1 .. MaxRange : tp = PoolRun(n)

poolVars == <<scene, sp, params, pack, bld, pc, hist, top>>

\* if (progress.get_cancel()) return, the head of build_node and of
\* thread_build_node; flag is the cancel flag at the poll
thread_build_node_poll(pool, t, cancelled, flag) ==
  IF cancelled
  THEN [pool EXCEPT !.thr[t] = PoolThread(Tail(@.stack), "poll", flag), !.dropped = @ + 1]
  ELSE [pool EXCEPT !.thr[t] = PoolThread(@.stack, "split", flag)]

\* build_node past the poll: a leaf, or an inner node whose children are
\* built by this call below THREAD_TASK_SIZE and else one by a task pushed
\* to the pool and one by this call; left is the size of the left child
build_node_split(pool, t, size, left) ==
  IF size <= 1
  THEN [pool EXCEPT !.thr[t] = PoolThread(Tail(@.stack), "poll", FALSE)]
  ELSE IF size < THREAD_TASK_SIZE
  THEN [pool EXCEPT !.thr[t] = PoolThread(<<left, size - left>> \o Tail(@.stack), "poll", FALSE)]
  ELSE [pool EXCEPT !.thr[t] = PoolThread(<<left>> \o Tail(@.stack), "poll", FALSE),
                    !.queue = Append(@, size - left),
                    !.pushed = @ + 1]

\* a thread polls the cancel flag for the range on top of its stack
PoolPoll(t) ==
  /\ tp.phase = "run" /\ tp.thr[t].stack # <<>> /\ tp.thr[t].state = "poll"
  /\ tp' = thread_build_node_poll(tp, t, get_cancel(progress), progress.cancel)
  /\ UNCHANGED <<poolVars, progress>>

\* a thread splits the range it polled for
PoolSplit(t) ==
  /\ tp.phase = "run" /\ tp.thr[t].stack # <<>> /\ tp.thr[t].state = "split"
  /\ \E left \in 1 .. Max2(1, Head(tp.thr[t].stack) - 1) :
       tp' = build_node_split(tp, t, Head(tp.thr[t].stack), left)
  /\ UNCHANGED <<poolVars, progress>>

\* a worker without work takes the oldest task of the pool
PoolTake(t) ==
  /\ tp.phase = "run" /\ t # Caller /\ tp.thr[t].stack = <<>> /\ tp.queue # <<>>
  /\ tp' = [tp EXCEPT !.thr[t] = PoolThread(<<Head(tp.queue)>>, "poll", FALSE),
                      !.queue = Tail(@)]
  /\ UNCHANGED <<poolVars, progress>>

\* task_pool.wait_work() returns to run when no task is pending or running,
\* and run returns
PoolWaitWork ==
  /\ tp.phase = "run" /\ tp.queue = <<>>
  /\ \A t \in PoolThreads : tp.thr[t].stack = <<>>
  /\ tp' = [tp EXCEPT !.phase = "returned"]
  /\ UNCHANGED <<poolVars, progress>>

\* Progress::set_cancel while the build runs
PoolSetCancel ==
  /\ tp.phase = "run" /\ ~progress.cancel
  /\ progress' = [progress EXCEPT !.cancel = TRUE]
  /\ UNCHANGED <<poolVars, tp>>

PoolThreadNext(t) == PoolPoll(t) \/ PoolSplit(t) \/ PoolTake(t)

PoolNext == (\E t \in PoolThreads : PoolThreadNext(t)) \/ PoolWaitWork \/ PoolSetCancel

\* every thread that can take a step takes one in the end, and so does the
\* wait of the caller; nothing forces a cancel
SpecPool ==
  /\ PoolInit /\ [][PoolNext]_vars
  /\ \A t \in PoolThreads : WF_vars(PoolThreadNext(t))
  /\ WF_vars(PoolWaitWork)

(***************************************************************************)
(* SpecSort: bvh_reference_sort on the range [start, end) of an array      *)
(* (bvh/sort.cpp).  tp is the call and the task pool of the sort: data is  *)
(* the reference array, queue the tasks pushed and not yet started, and    *)
(* thr[t] the call of bvh_reference_sort_threaded thread t is in.  A step  *)
(* of a thread is one pass of the while loop of the call.  range, lo, hi   *)
(* and fork of a job record the last pass: the range it worked on, the     *)
(* lowest and the highest slot it read or wrote, the range it pushed.      *)
(***************************************************************************)
BVH_SORT_THRESHOLD == 3
MaxSortLen == 6

SortDim == 0

\* a reference whose box is the point (c, 0, 0)
SortRef(c, i) == BVHReference([min |-> <<c, 0, 0>>, max |-> <<c, 0, 0>>], i, 0, PRIMITIVE_TRIANGLE)

SortRefs == {SortRef(0, 0), SortRef(0, 1), SortRef(2, 0)}

SortJob(job_start, job_end, start, end, have_work) ==
  [job_start |-> job_start, job_end |-> job_end, start |-> start, end |-> end,
   have_work |-> have_work, range |-> <<0, -1>>, lo |-> 0, hi |-> -1, fork |-> <<>>]

NoJob == SortJob(0, -1, 0, -1, FALSE)

\* the head of bvh_reference_sort_threaded
SortCall(job_start, job_end) ==
  SortJob(job_start, job_end, job_start, job_end, job_start < job_end)

\* if (compare.compare(data[i], data[j]) > 0) swap(data[i], data[j])
SwapIfAbove(data, i, j) ==
  IF BVHReferenceCompare(data[i + 1], data[j + 1], SortDim) > 0 THEN Swap(data, i, j)
  ELSE data

\* the median of three moved to data[right - 1]
SortMedian3(data, left, right, center) ==
  Swap(SwapIfAbove(SwapIfAbove(SwapIfAbove(data, left, center), left, right),
                   center, right),
       center, right - 1)

\* while (compare.compare(data[left], median) < 0) ++left; a slot behind
\* the array ends the scan
RECURSIVE SortScanLeft(_, _, _)
SortScanLeft(data, left, median) ==
  IF left < Len(data) /\ BVHReferenceCompare(data[left + 1], median, SortDim) < 0
  THEN SortScanLeft(data, left + 1, median)
  ELSE left

\* while (compare.compare(data[right], median) > 0) --right; a slot before
\* the array ends the scan
RECURSIVE SortScanRight(_, _, _)
SortScanRight(data, right, median) ==
  IF right >= 0 /\ BVHReferenceCompare(data[right + 1], median, SortDim) > 0
  THEN SortScanRight(data, right - 1, median)
  ELSE right

\* if (left <= right) { swap(data[left], data[right]); ++left; --right; }
SortExchange(p, left, right) ==
  IF left <= right /\ left < Len(p.data) /\ right >= 0
  THEN [data |-> Swap(p.data, left, right), left |-> left + 1, right |-> right - 1,
        lo |-> Min2(p.lo, right), hi |-> Max2(p.hi, left)]
  ELSE [data |-> p.data, left |-> left, right |-> right,
        lo |-> Min2(p.lo, right), hi |-> Max2(p.hi, left)]

\* do { ... } while (left <= right)
RECURSIVE SortPartition(_, _)
SortPartition(p, median) ==
  The({IF q.left <= q.right THEN SortPartition(q, median) ELSE q :
         q \in {SortExchange(p, SortScanLeft(p.data, p.left, median),
                             SortScanRight(p.data, p.right, median))}})

\* if (left < end) { if (start < right) push; else start = left; }
SortForkStart(job, left, right) ==
  IF left < job.end /\ ~(job.start < right) THEN left ELSE job.start

\* the thread keeps the left side and the right side is left as it is
SortFork_left_only(job, left, right) ==
  [job EXCEPT !.fork = <<>>,
              !.end = IF job.start < right THEN right ELSE @,
              !.have_work = job.start < right]

\* the task pushed is the range [right, end], one slot of the range kept
SortFork_overlap(job, left, right) ==
  [job EXCEPT !.fork = IF left < job.end /\ job.start < right THEN <<right, job.end>>
                       ELSE <<>>,
              !.start = SortForkStart(job, left, right),
              !.end = IF SortForkStart(job, left, right) < right THEN right ELSE @,
              !.have_work = (left < job.end /\ ~(job.start < right))
                              \/ SortForkStart(job, left, right) < right]

\* one new task for the right side, the thread keeps the left side; with
\* nothing to do on the left side the thread works on the right side
SortFork(job, left, right) ==
  [job EXCEPT !.fork = IF left < job.end /\ job.start < right THEN <<left, job.end>>
                       ELSE <<>>,
              !.start = SortForkStart(job, left, right),
              !.end = IF SortForkStart(job, left, right) < right THEN right ELSE @,
              !.have_work = (left < job.end /\ ~(job.start < right))
                              \/ SortForkStart(job, left, right) < right]

\* a single QSort step on [start, end]
SortQSortStep(data, job) ==
  The({[data |-> p.data,
        job |-> [SortFork(job, p.left, p.right) EXCEPT
                   !.range = <<job.start, job.end>>, !.lo = p.lo, !.hi = p.hi]] :
         p \in {The({SortPartition([data |-> d, left |-> job.start, right |-> job.end,
                                    lo |-> job.start, hi |-> job.end],
                                   d[job.end])
                       : d \in {SortMedian3(data, job.start, job.end,
                                            (job.start + job.end) \div 2)}})}})

\* one pass of the loop of bvh_reference_sort_threaded
bvh_reference_sort_threaded(data, job) ==
  IF job.job_end - job.job_start < BVH_SORT_THRESHOLD
  THEN [data |-> bvh_reference_sort(job.job_start, job.job_end + 1, data, SortDim),
        job |-> [job EXCEPT !.have_work = FALSE, !.range = <<job.start, job.end>>,
                            !.lo = job.job_start, !.hi = job.job_end, !.fork = <<>>]]
  ELSE SortQSortStep(data, job)

\* bvh_reference_sort(start, end, data) has been called: nothing ran yet
SortEntry(data, start, end) ==
  [queue |-> <<>>, thr |-> [t \in PoolThreads |-> NoJob],
   phase |-> "call", pushed |-> 0, dropped |-> 0, data |-> data, orig |-> data,
   start |-> start, end |-> end]

\* bvh_reference_sort with count >= BVH_SORT_THRESHOLD: the caller is in
\* bvh_reference_sort_threaded(start, end - 1)
SortRun(data, start, end) ==
  [queue |-> <<>>,
   thr |-> [t \in PoolThreads |->
              IF t = Caller THEN SortCall(start, end - 1) ELSE NoJob],
   phase |-> "sort", pushed |-> 0, dropped |-> 0, data |-> data, orig |-> data,
   start |-> start, end |-> end]

SortArrays == UNION {[1 .. n -> SortRefs] : n \in BVH_SORT_THRESHOLD .. MaxSortLen}

\* the ranges [start, end) sorted: all of the array, or all but its first
\* or its last slot, or both
SortRanges(data) ==
  {r \in (0 .. 1) \X (Len(data) - 1 .. Len(data)) : r[1] <= r[2]}

SortInit ==
  /\ scene = Scene(<<Object(MeshA, ZeroTfm)>>, FALSE)
  /\ sp = [refs |-> <<>>, prev |-> <<>>, steps |-> 0, op |-> "init", dups |-> 0,
           sr |-> NoSplit]
  /\ params = [use_spatial_split |-> FALSE]
  /\ progress = [cancel |-> FALSE]
  /\ pack = PackedBVH
  /\ bld = NoBuild
  /\ pc = "idle"
  /\ hist = NoHist
  /\ top = NoTop
  /\ \E data \in SortArrays : \E r \in SortRanges(data) : tp = SortEntry(data, r[1], r[2])

\* count < BVH_SORT_THRESHOLD: the range is sorted in the calling thread
SortSequential ==
  /\ tp.phase = "call" /\ tp.end - tp.start < BVH_SORT_THRESHOLD
  /\ tp' = [tp EXCEPT !.data = bvh_reference_sort(tp.start, tp.end, tp.data, SortDim),
                      !.phase = "sorted"]
  /\ UNCHANGED <<poolVars, progress>>

\* count >= BVH_SORT_THRESHOLD: the task pool is made and the caller enters
\* bvh_reference_sort_threaded
SortThreaded ==
  /\ tp.phase = "call" /\ tp.end - tp.start >= BVH_SORT_THRESHOLD
  /\ tp' = SortRun(tp.data, tp.start, tp.end)
  /\ UNCHANGED <<poolVars, progress>>

SortAfterStep(t, r) ==
  [tp EXCEPT !.data = r.data, !.thr[t] = r.job,
             !.queue = IF r.job.fork = <<>> THEN @
                       ELSE Append(@, [job_start |-> r.job.fork[1], job_end |-> r.job.fork[2]]),
             !.pushed = IF r.job.fork = <<>> THEN @ ELSE @ + 1]

\* a thread runs one pass of the loop of its call
SortStep(t) ==
  /\ tp.phase = "sort" /\ tp.thr[t].have_work
  /\ tp' = SortAfterStep(t, bvh_reference_sort_threaded(tp.data, tp.thr[t]))
  /\ UNCHANGED <<poolVars, progress>>

\* a thread whose call has returned runs the oldest task of the pool
SortTake(t) ==
  /\ tp.phase = "sort" /\ ~tp.thr[t].have_work /\ tp.queue # <<>>
  /\ tp' = [tp EXCEPT !.thr[t] = SortCall(Head(tp.queue).job_start, Head(tp.queue).job_end),
                      !.queue = Tail(@)]
  /\ UNCHANGED <<poolVars, progress>>

\* task_pool.wait_work() returns when no task is pending or running
SortWaitWork ==
  /\ tp.phase = "sort" /\ tp.queue = <<>>
  /\ \A t \in PoolThreads : ~tp.thr[t].have_work
  /\ tp' = [tp EXCEPT !.phase = "sorted"]
  /\ UNCHANGED <<poolVars, progress>>

SortNext ==
  \/ SortSequential \/ SortThreaded
  \/ (\E t \in PoolThreads : SortStep(t) \/ SortTake(t)) \/ SortWaitWork

SpecSort == SortInit /\ [][SortNext]_vars

(***************************************************************************)
(* Properties of spatial splits                                            *)
(***************************************************************************)
Count(s, x) == Cardinality({i \in 1 .. Len(s) : s[i] = x})

IsPermutation(s, t) ==
  /\ Len(s) = Len(t)
  /\ \A x \in SeqRange(s) \cup SeqRange(t) : Count(s, x) = Count(t, x)

OrigBounds(ref) == PrimBounds(scene.objs, ref.prim_index, ref.prim_object, ref.prim_type)

Axes == { <<1, 0, 0>>, <<0, 1, 0>>, <<0, 0, 1>>, <<-1, 0, 0>>, <<0, -1, 0>>, <<0, 0, -1>> }

Ball(c, r) == {c} \cup { <<c[1] + r * a[1], c[2] + r * a[2], c[3] + r * a[3]>> : a \in Axes }

Mid(a, b) == <<(a[1] + b[1]) \div 2, (a[2] + b[2]) \div 2, (a[3] + b[3]) \div 2>>

\* points of the primitive (pidx, type) of the geometry, moved by tfm
GeomSamples(geom, tfm, pidx, type) ==
  IF geom.kind = "mesh"
  THEN LET t == geom.items[pidx + 1]
           P(i) == transform_point(tfm, geom.pts[t[i] + 1])
       IN  {P(1), P(2), P(3), Mid(P(1), P(2)), Mid(P(2), P(3)), Mid(P(3), P(1))}
  ELSE IF geom.kind = "hair"
  THEN LET k0 == geom.items[pidx + 1][1] + PRIMITIVE_UNPACK_SEGMENT(type)
       IN  Ball(transform_point(tfm, geom.pts[k0 + 1]), geom.radius[k0 + 1])
             \cup Ball(transform_point(tfm, geom.pts[k0 + 2]), geom.radius[k0 + 2])
  ELSE Ball(transform_point(tfm, geom.pts[pidx + 1]), geom.radius[pidx + 1])

GeomPrimIds(geom) ==
  IF geom.kind = "mesh" THEN {<<i, PRIMITIVE_TRIANGLE>> : i \in 0 .. Len(geom.items) - 1}
  ELSE IF geom.kind = "hair"
  THEN UNION {{<<i, PRIMITIVE_PACK_SEGMENT(PRIMITIVE_CURVE, g)>> :
                 g \in 0 .. geom.items[i + 1][2] - 2} : i \in 0 .. Len(geom.items) - 1}
  ELSE {<<i, PRIMITIVE_POINT>> : i \in 0 .. Len(geom.pts) - 1}

\* points of the primitive a reference stands for
Samples(ref) ==
  LET ob == scene.objs[ref.prim_object + 1]
  IN  IF ref.prim_index = -1
      THEN UNION {GeomSamples(ob.geom, ob.tfm, id[1], id[2]) : id \in GeomPrimIds(ob.geom)}
      ELSE GeomSamples(ob.geom, ZeroTfm, ref.prim_index, ref.prim_type)

\* every point of the primitive of ref lies in a box of a reference of refs
\* that carries the identity of ref
Covered(refs, ref) ==
  \A p \in Samples(ref) :
    \E i \in 1 .. Len(refs) : RefId(refs[i]) = RefId(ref) /\ PointIn(p, refs[i].bounds)

\* C4: both boxes split_reference returns lie inside the box of the
\* reference that was split, for every primitive kind, axis and position; so
\* every reference of the array lies inside a reference of the array before
\* the split and inside the bounds of its primitive, however deep the splits
\* are nested.
C4_SplitBoxesInsideReference ==
  /\ sp.op = "split_reference" =>
       /\ BoxIn(sp.sr.left.bounds, sp.sr.ref.bounds)
       /\ BoxIn(sp.sr.right.bounds, sp.sr.ref.bounds)
  /\ \A i \in 1 .. Len(sp.refs) :
       /\ \E j \in 1 .. Len(sp.prev) :
            /\ RefId(sp.prev[j]) = RefId(sp.refs[i])
            /\ BoxIn(sp.refs[i].bounds, sp.prev[j].bounds)
       /\ BoxIn(sp.refs[i].bounds, OrigBounds(sp.refs[i]))

\* a reference that an earlier split clipped is split again
C4_Witness ==
  /\ sp.op = "split_reference"
  /\ sp.sr.ref.bounds # OrigBounds(sp.sr.ref)
  /\ BoundBox_valid(sp.sr.left.bounds) /\ BoundBox_valid(sp.sr.right.bounds)
  /\ sp.sr.left.bounds # sp.sr.ref.bounds

\* C5 as claimed: after any sequence of spatial splits the boxes of the
\* references of one primitive together contain the primitive, for every
\* primitive kind.
C5_Original_AllKindsCovered ==
  \A i \in 1 .. Len(sp.refs) : Covered(sp.refs, sp.refs[i])

(***************************************************************************)
(* Properties of the trees and of the packed structure                     *)
(***************************************************************************)
\* the union of the boxes of a sequence of references
RefsBounds(refs) == GrowRefs(refs, 0, Len(refs), BoundBox_empty)

\* the tree of the running build is whole: every frame was built
TreeBuilt == pc \in {"build_1", "build_2", "build_3"} /\ ~bld.cancelled /\ bld.nodes # <<>>

\* the inner nodes of the builder's tree that have both children
InnerNodes == {i \in 1 .. Len(bld.nodes) :
                 ~bld.nodes[i].leaf /\ bld.nodes[i].c0 >= 0 /\ bld.nodes[i].c1 >= 0}

LeafNodes == {i \in 1 .. Len(bld.nodes) : bld.nodes[i].leaf}

ChildrenBounds(i) ==
  BoundBox_grow(bld.nodes[bld.nodes[i].c0 + 1].bounds, bld.nodes[bld.nodes[i].c1 + 1].bounds)

\* box k (1 or 2) an inner node of the packed structure stores for its child
PackedBox(pk, idx, k) ==
  [min |-> <<pk.nodes[idx + 2][k], pk.nodes[idx + 3][k], pk.nodes[idx + 4][k]>>,
   max |-> <<pk.nodes[idx + 2][k + 2], pk.nodes[idx + 3][k + 2], pk.nodes[idx + 4][k + 2]>>]

PackedChild(pk, idx, k) == pk.nodes[idx + 1][k + 2]

PackedInner(pk) == {idx \in 0 .. Len(pk.nodes) - 1 : idx % BVH_NODE_SIZE = 0}

\* the bounds of the primitives in the slots of a packed leaf
PackedLeafPrimBounds(pk, leaf_idx) ==
  {PrimBounds(scene.objs, pk.prim_index[s + 1], pk.prim_object[s + 1], pk.prim_type[s + 1]) :
     s \in pk.leaf_nodes[leaf_idx + 1][1] .. pk.leaf_nodes[leaf_idx + 1][2] - 1}

\* every stored box of the packed structure bounds what is below it
PackedBoxesBound(pk) ==
  \A idx \in PackedInner(pk) : \A k \in 1 .. 2 :
    IF PackedChild(pk, idx, k) < 0
    THEN \A b \in PackedLeafPrimBounds(pk, -PackedChild(pk, idx, k) - 1) :
           BoxIn(b, PackedBox(pk, idx, k))
    ELSE PackedBox(pk, idx, k) =
           BoundBox_grow(PackedBox(pk, PackedChild(pk, idx, k), 1),
                         PackedBox(pk, PackedChild(pk, idx, k), 2))

Refitted == pc = "idle" /\ hist.outcome = "refitted"

\* C1 as claimed: in the builder's tree the box of a leaf contains the box
\* of every reference of the leaf, the box of an inner node equals the union
\* of the boxes of its two children and the box of the root is the union of
\* the bounds of the input primitives; after a refit every stored box of the
\* packed structure bounds the primitives of its leaf or equals the union of
\* the two boxes stored for its child.
C1_Original_InnerEqualsUnion ==
  /\ \A i \in LeafNodes : \A j \in 1 .. Len(bld.nodes[i].refs) :
       BoxIn(bld.nodes[i].refs[j].bounds, bld.nodes[i].bounds)
  /\ \A i \in InnerNodes : bld.nodes[i].bounds = ChildrenBounds(i)
  /\ TreeBuilt => bld.nodes[1].bounds = RefsBounds(SceneRefs(scene))
  /\ Refitted => PackedBoxesBound(pack)

(***************************************************************************)
(* Properties of object splits                                             *)
(***************************************************************************)
\* the build in progress, or just finished, has not observed a cancel
Building == pc \in {"run", "build_1", "build_2", "build_3"} /\ ~bld.cancelled

\* the primitive slot s of the packed arrays names
SlotId(pk, s) == <<pk.prim_object[s + 1], pk.prim_index[s + 1], pk.prim_type[s + 1]>>

\* the leaves and the pending ranges that hold slot s
Covering(s) ==
  Cardinality({i \in LeafNodes : bld.nodes[i].lo <= s /\ s < bld.nodes[i].hi})
    + Cardinality({k \in 1 .. Len(bld.stack) :
                     bld.stack[k].range.start <= s /\ s < RangeEnd(bld.stack[k].range)})

\* l is the record of a split: its two sides are the prefix and the suffix
\* of the split range, which is permuted in place
SplitsInPlace(l) ==
  /\ l.left.start = l.range.start
  /\ l.right.start = l.left.start + l.left.size
  /\ l.left.size + l.right.size = l.range.size
  /\ Len(l.after) = Len(l.before)
  /\ IsPermutation(SubSeq(l.after, l.range.start + 1, RangeEnd(l.range)),
                   SubSeq(l.before, l.range.start + 1, RangeEnd(l.range)))
  /\ \A i \in 1 .. Len(l.before) :
       (i <= l.range.start \/ i > RangeEnd(l.range)) => l.after[i] = l.before[i]

\* C2: a binned or sort-based object split returns the prefix and the suffix
\* of its range and permutes the references of the range in place; with
\* spatial splits disabled the leaves and the pending ranges of a build tile
\* the reference array, the array stays a permutation of the input and the
\* finished build has written every input primitive to exactly one slot.
C2_ObjectSplitsPartition ==
  /\ bld.last.kind \in {"binned", "object"} => SplitsInPlace(bld.last)
  /\ (Building /\ ~params.use_spatial_split) =>
       /\ IsPermutation(bld.references, SceneRefs(scene))
       /\ \A s \in 0 .. Len(bld.references) - 1 : Covering(s) = 1
  /\ (TreeBuilt /\ ~params.use_spatial_split) =>
       /\ Len(pack.prim_index) = Len(SceneRefs(scene))
       /\ \A s \in 0 .. Len(bld.references) - 1 :
            SlotId(pack, s) = RefId(bld.references[s + 1])

\* a finished build without spatial splits of three leaves or more whose
\* splits moved references
C2_Witness ==
  /\ TreeBuilt /\ ~params.use_spatial_split
  /\ Cardinality(LeafNodes) >= 3
  /\ bld.references # SceneRefs(scene)

(***************************************************************************)
(* Properties of leaves                                                    *)
(***************************************************************************)
LeafSize(i) == bld.nodes[i].hi - bld.nodes[i].lo

\* C3: a leaf holds at most max_leaf_size references unless the depth limit
\* forced it, and a forced leaf sits at the depth limit.
C3_LeafSizeBound ==
  \A i \in LeafNodes :
    /\ ~bld.nodes[i].forced => LeafSize(i) <= bld.params.max_leaf_size
    /\ bld.nodes[i].forced => bld.nodes[i].level >= bld.params.max_depth

\* a finished build with spatial splits that made an inner node and stopped
\* at a leaf of two references under a bound of two
C3_Witness ==
  /\ TreeBuilt /\ params.use_spatial_split /\ params.max_leaf_size = 2
  /\ InnerNodes # {}
  /\ \E i \in LeafNodes : ~bld.nodes[i].forced /\ LeafSize(i) = 2

(***************************************************************************)
(* Properties of refit                                                     *)
(***************************************************************************)
\* the child indexes of the inner nodes and the slots of the leaves
Topology(pk) ==
  [inner |-> [idx \in PackedInner(pk) |-> <<PackedChild(pk, idx, 1), PackedChild(pk, idx, 2)>>],
   leaf |-> [k \in 1 .. Len(pk.leaf_nodes) |->
               <<pk.leaf_nodes[k][1], pk.leaf_nodes[k][2], pk.leaf_nodes[k][4]>>],
   root_index |-> pk.root_index]

RefKey(r, dim) ==
  <<r.bounds.min[dim + 1] + r.bounds.max[dim + 1], r.prim_object, r.prim_index, r.prim_type>>

LexLess(a, b) == \E k \in 1 .. 4 : a[k] < b[k] /\ \A j \in 1 .. k - 1 : a[j] = b[j]

\* the comparator orders the references lo .. hi - 1 strictly by their key
StrictlyOrdered(refs, lo, hi) ==
  \A i \in lo .. hi - 1 : \A j \in lo .. hi - 1 : \A dim \in Dims :
    i # j => BVHReferenceCompare(refs[i + 1], refs[j + 1], dim)
               = IF LexLess(RefKey(refs[i + 1], dim), RefKey(refs[j + 1], dim)) THEN -1 ELSE 1

\* the first axis of minimal cost
FirstBest(bestSAH) == CHOOSE d \in Dims :
  /\ \A e \in Dims : bestSAH[d + 1] <= bestSAH[e + 1]
  /\ \A e \in Dims : e < d => bestSAH[e + 1] > bestSAH[d + 1]

\* C7: the comparator orders the references of every range of a build
\* strictly by centroid, object, primitive index and type, the binned split
\* takes the first axis of minimal cost, and every completed build of a
\* scene packs what the first completed build packed.
C7_Deterministic ==
  /\ StrictlyOrdered(SceneRefs(scene), 0, Len(SceneRefs(scene)))
  /\ (Building /\ params.use_spatial_split) =>
       \A k \in 1 .. Len(bld.stack) :
         StrictlyOrdered(bld.stack[k].refs, bld.stack[k].range.start,
                         RangeEnd(bld.stack[k].range))
  /\ (Building /\ ~params.use_spatial_split) =>
       \A k \in 1 .. Len(bld.stack) :
         bld.stack[k].range.dim = FirstBest(bld.stack[k].range.bestSAH)
  /\ (pc = "idle" /\ hist.outcome = "packed") => pack = hist.first

\* the second build of a scene has packed, after a refit, a tree of two
\* inner nodes or more
C7_Witness ==
  /\ pc = "idle" /\ hist.outcome = "packed" /\ hist.builds = 2 /\ hist.cancels = 0
  /\ hist.refits = 1
  /\ Len(pack.nodes) >= 2 * BVH_NODE_SIZE

(***************************************************************************)
(* Properties of cancellation                                              *)
(***************************************************************************)
\* C9: a build that observed the cancel flag at one of its checks has
\* returned with nodes, leaf_nodes, object_node and root_index as they were
\* when build was entered.
C9_CancelKeepsPackedNodes ==
  (pc = "idle" /\ hist.outcome = "cancelled") =>
    /\ pack.nodes = hist.prev.nodes
    /\ pack.leaf_nodes = hist.prev.leaf_nodes
    /\ pack.object_node = hist.prev.object_node
    /\ pack.root_index = hist.prev.root_index

\* a build over a packed structure returned on the cancel its last check
\* observed
C9_Witness ==
  /\ pc = "idle" /\ hist.outcome = "cancelled" /\ hist.checked
  /\ hist.prev.nodes # <<>>
  /\ pack.nodes = hist.prev.nodes

\* BVHBuild::run to its end
RECURSIVE RunToEnd(_, _)
RunToEnd(objs, w) ==
  IF w.b.stack = <<>> THEN w
  ELSE The({RunToEnd(objs, v) : v \in {build_node(objs, w, FALSE)}})

FreshPacked(objs, w) ==
  pack_nodes(run_end(w.b, FALSE).nodes,
             pack_primitives(objs, [PackedBVH EXCEPT !.prim_type = w.p.prim_type,
                                                     !.prim_index = w.p.prim_index,
                                                     !.prim_object = w.p.prim_object])).pk

\* what an undisturbed build of a newly constructed BVH2 packs
FreshBuild(sc, params_) ==
  The({FreshPacked(sc.objs, w) : w \in
    {RunToEnd(sc.objs,
              run_begin(sc, [b |-> [NoBuild EXCEPT !.params = params_, !.alive = TRUE],
                             p |-> [prim_type |-> <<>>, prim_index |-> <<>>,
                                    prim_object |-> <<>>]], FALSE))}})

\* C10: the build that follows a cancelled build packs what an undisturbed
\* build of a newly constructed BVH2 packs.
C10_BuildAfterCancelIsFresh ==
  (pc = "idle" /\ hist.outcome = "packed" /\ hist.after_cancel) =>
    pack = FreshBuild(scene, params)

\* a completed build after a build that was cancelled when it had written
\* to the packed arrays
C10_Witness ==
  /\ pc = "idle" /\ hist.outcome = "packed" /\ hist.after_partial
  /\ Len(pack.nodes) >= 2 * BVH_NODE_SIZE

\* no thread goes on to split a range for which its poll saw the flag set
NoSplitAfterObserve == \A t \in DOMAIN tp.thr : tp.thr[t].state = "split" => ~tp.thr[t].seen

\* when run has returned no task is pending and no thread holds a range
ReturnedClean ==
  tp.phase = "returned" => tp.queue = <<>> /\ \A t \in DOMAIN tp.thr : tp.thr[t].stack = <<>>

\* C8: no thread splits a range after its poll observed the cancel, a build
\* that returned left no task pending or running, and a build whose cancel
\* flag is set while it runs returns in the end.
C8_CancelledBuildReturns ==
  /\ [](NoSplitAfterObserve /\ ReturnedClean)
  /\ (progress.cancel /\ tp.phase = "run") ~> (tp.phase = "returned")

\* a cancelled threaded build returned after it had pushed two tasks and
\* three ranges had been given up on the cancel
C8_Witness ==
  /\ tp.phase = "returned" /\ progress.cancel
  /\ tp.pushed >= 2 /\ tp.dropped >= 3

(***************************************************************************)
(* SpecStorage: the BVHSpatialStorage of one thread of a spatial-split     *)
(* build (bvh/split.cpp, bvh/split.h).  A split evaluation is the          *)
(* constructor of BVHMixedSplit and BVHMixedSplit::split on one range;     *)
(* while bvh_reference_sort waits on its task pool the thread may run      *)
(* another build task, whose evaluation uses the same storage and ends     *)
(* before the wait returns.  tp.evals is the stack of the evaluations of   *)
(* the thread, the running one first, each [id, size, dim, pc, nested];    *)
(* tp.right_bounds is storage.right_bounds, a slot holding the evaluation, *)
(* the dimension and the index it was written for.  oob tells an access    *)
(* behind the end of right_bounds, stale a sweep that read a slot it did   *)
(* not write.                                                              *)
(***************************************************************************)
MaxEvals == 3
MaxNest == 2

\* sizes of the ranges evaluated: below, at and above BVH_SORT_THRESHOLD
StorageSizes == {2, BVH_SORT_THRESHOLD, BVH_SORT_THRESHOLD + 2}

\* a slot no sweep wrote
NoBounds == [owner |-> 0, dim |-> 0, i |-> 0]

StorageTag(e, dim, i) == [owner |-> e.id, dim |-> dim, i |-> i]

Evaluation(id, size) == [id |-> id, size |-> size, dim |-> 0, pc |-> "sort", nested |-> 0]

\* right_bounds.resize(n)
StorageResizeTo(rb, n) == [k \in 1 .. n |-> IF k <= Len(rb) THEN rb[k] ELSE NoBounds]

\* the resize made for the first dimension only
StorageResize_first_dim(rb, e) ==
  IF e.dim = 0 THEN StorageResizeTo(rb, e.size) ELSE rb

\* storage_->right_bounds.resize(range.size()) of BVHObjectSplit
StorageResize(rb, e) == StorageResizeTo(rb, e.size)

\* for (i = n - 1; i > 0; i--) right_bounds[i - 1] = ...
SweepRight(rb, e, dim, n) ==
  [rb |-> [k \in 1 .. Len(rb) |-> IF k <= n - 1 THEN StorageTag(e, dim, k - 1) ELSE rb[k]],
   oob |-> n - 1 > Len(rb)]

\* for (i = 1; i < n; i++) ... = right_bounds[i - 1]
SweepLeft(rb, e, dim, n) ==
  [oob |-> n - 1 > Len(rb),
   stale |-> \E k \in 1 .. Min2(n - 1, Len(rb)) : rb[k] # StorageTag(e, dim, k - 1)]

\* the sweeps of the constructor of BVHSpatialSplit: the resize to
\* NUM_SPATIAL_BINS and, for one dimension, the fill and the read
SpatialSweeps(rb, e, dim) ==
  The({[rb |-> w.rb, oob |-> w.oob \/ SweepLeft(w.rb, e, dim, NUM_SPATIAL_BINS).oob,
        stale |-> SweepLeft(w.rb, e, dim, NUM_SPATIAL_BINS).stale] :
         w \in {SweepRight(StorageResizeTo(rb, NUM_SPATIAL_BINS), e, dim, NUM_SPATIAL_BINS)}})

StorageInit ==
  /\ scene = Scene(<<Object(MeshA, ZeroTfm)>>, FALSE)
  /\ sp = [refs |-> <<>>, prev |-> <<>>, steps |-> 0, op |-> "init", dups |-> 0,
           sr |-> NoSplit]
  /\ params = [use_spatial_split |-> TRUE]
  /\ progress = [cancel |-> FALSE]
  /\ pack = PackedBVH
  /\ bld = NoBuild
  /\ pc = "idle"
  /\ hist = NoHist
  /\ top = NoTop
  /\ tp = [phase |-> "storage", right_bounds |-> <<>>, evals |-> <<>>, started |-> 0,
           oob |-> FALSE, stale |-> FALSE, last |-> "none"]

StorageTop == Head(tp.evals)

StoragePush(size) ==
  [tp EXCEPT !.evals = <<Evaluation(tp.started + 1, size)>> \o
                         (IF @ = <<>> THEN @ ELSE <<[Head(@) EXCEPT !.nested = @ + 1]>> \o Tail(@)),
             !.started = @ + 1, !.last = "begin"]

\* a build task of the thread reaches the constructor of BVHMixedSplit
StorageBegin ==
  /\ tp.evals = <<>> /\ tp.started < MaxEvals /\ ~tp.oob
  /\ \E size \in StorageSizes : tp' = StoragePush(size)
  /\ UNCHANGED <<poolVars, progress>>

\* bvh_reference_sort of a range of BVH_SORT_THRESHOLD references or more
\* waits on its task pool and the thread runs another build task
StorageSortRunsTask ==
  /\ tp.evals # <<>> /\ StorageTop.pc \in {"sort", "split"} /\ ~tp.oob
  /\ StorageTop.size >= BVH_SORT_THRESHOLD
  /\ tp.started < MaxEvals /\ Len(tp.evals) < MaxNest
  /\ \E size \in StorageSizes : tp' = StoragePush(size)
  /\ UNCHANGED <<poolVars, progress>>

\* bvh_reference_sort of the constructor of BVHObjectSplit returns and
\* right_bounds is resized
StorageSorted ==
  /\ tp.evals # <<>> /\ StorageTop.pc = "sort" /\ ~tp.oob
  /\ tp' = [tp EXCEPT !.right_bounds = StorageResize(@, StorageTop),
                      !.evals[1].pc = "fill", !.last = "resize"]
  /\ UNCHANGED <<poolVars, progress>>

\* the sweep from right to left of BVHObjectSplit
StorageFill ==
  /\ tp.evals # <<>> /\ StorageTop.pc = "fill" /\ ~tp.oob
  /\ \E w \in {SweepRight(tp.right_bounds, StorageTop, StorageTop.dim, StorageTop.size)} :
       tp' = [tp EXCEPT !.right_bounds = w.rb, !.oob = w.oob, !.evals[1].pc = "read",
                        !.last = "fill"]
  /\ UNCHANGED <<poolVars, progress>>

\* the sweep from left to right of BVHObjectSplit; after the third
\* dimension the constructor of BVHSpatialSplit may follow
StorageRead ==
  /\ tp.evals # <<>> /\ StorageTop.pc = "read" /\ ~tp.oob
  /\ \E r \in {SweepLeft(tp.right_bounds, StorageTop, StorageTop.dim, StorageTop.size)} :
       tp' = [tp EXCEPT !.oob = r.oob, !.stale = @ \/ r.stale,
                        !.evals[1].dim = IF @ < 2 THEN @ + 1 ELSE @,
                        !.evals[1].pc = IF StorageTop.dim < 2 THEN "sort" ELSE "spatial",
                        !.last = "read"]
  /\ UNCHANGED <<poolVars, progress>>

\* the constructor of BVHSpatialSplit, if the overlap calls for it
StorageSpatial ==
  /\ tp.evals # <<>> /\ StorageTop.pc = "spatial" /\ ~tp.oob
  /\ \/ tp' = [tp EXCEPT !.evals[1].pc = "split", !.last = "no_spatial"]
     \/ \E s0 \in {SpatialSweeps(tp.right_bounds, StorageTop, 3)} :
          \E s1 \in {SpatialSweeps(s0.rb, StorageTop, 4)} :
            \E s2 \in {SpatialSweeps(s1.rb, StorageTop, 5)} :
              tp' = [tp EXCEPT !.right_bounds = s2.rb,
                               !.oob = s0.oob \/ s1.oob \/ s2.oob,
                               !.stale = @ \/ s0.stale \/ s1.stale \/ s2.stale,
                               !.evals[1].pc = "split", !.last = "spatial"]
  /\ UNCHANGED <<poolVars, progress>>

\* BVHMixedSplit::split returns: the evaluation ends
StorageEnd ==
  /\ tp.evals # <<>> /\ StorageTop.pc = "split" /\ ~tp.oob
  /\ tp' = [tp EXCEPT !.evals = Tail(@), !.last = "end"]
  /\ UNCHANGED <<poolVars, progress>>

StorageNext ==
  \/ StorageBegin \/ StorageSortRunsTask \/ StorageSorted \/ StorageFill
  \/ StorageRead \/ StorageSpatial \/ StorageEnd

SpecStorage == StorageInit /\ [][StorageNext]_vars

(***************************************************************************)
(* SpecBox: the operations of BoundBox (util/boundbox.h) applied in any    *)
(* order to one box, which starts as a valid box or as BoundBox::empty.    *)
(* sp holds the box, the last operation (op), its argument (arg: a point   *)
(* is the box of the point) and whether the box before it and every        *)
(* argument so far was valid or empty (sound).                             *)
(***************************************************************************)
BoxCoords == {0, 1}

BoxPoints == BoxCoords \X BoxCoords \X BoxCoords

\* BoundBox(pt)
BoundBox_pt(pt) == [min |-> pt, max |-> pt]

\* the valid boxes over the coordinates and the empty box
BoxInputs ==
  {[min |-> c[1], max |-> c[2]] : c \in {e \in BoxPoints \X BoxPoints :
      \A d \in 1 .. 3 : e[1][d] <= e[2][d]}} \cup {BoundBox_empty}

ValidOrEmpty(b) == BoundBox_valid(b) \/ b = BoundBox_empty

BoxInit ==
  /\ scene = Scene(<<Object(MeshA, ZeroTfm)>>, FALSE)
  /\ \E b \in BoxInputs : sp = [box |-> b, op |-> "init", arg |-> b, sound |-> TRUE]
  /\ BuildIdle

BoxAfter(op, box, arg) ==
  [box |-> box, op |-> op, arg |-> arg, sound |-> ValidOrEmpty(sp.box) /\ ValidOrEmpty(arg)]

\* BoundBox::grow(const float3 &pt)
BoxGrowPoint ==
  /\ \E pt \in BoxPoints : sp' = BoxAfter("grow_pt", BoundBox_grow_pt(sp.box, pt), BoundBox_pt(pt))
  /\ UNCHANGED <<scene, buildVars>>

\* BoundBox::grow(const BoundBox &bbox)
BoxGrow ==
  /\ \E b \in BoxInputs : sp' = BoxAfter("grow", BoundBox_grow(sp.box, b), b)
  /\ UNCHANGED <<scene, buildVars>>

\* merge(const BoundBox &a, const BoundBox &b)
BoxMerge ==
  /\ \E b \in BoxInputs : sp' = BoxAfter("merge", BoundBox_merge(sp.box, b), b)
  /\ UNCHANGED <<scene, buildVars>>

\* BoundBox::intersect
BoxIntersect ==
  /\ \E b \in BoxInputs : sp' = BoxAfter("intersect", BoundBox_intersect(sp.box, b), b)
  /\ UNCHANGED <<scene, buildVars>>

BoxNext == BoxGrowPoint \/ BoxGrow \/ BoxMerge \/ BoxIntersect

SpecBox == BoxInit /\ [][BoxNext]_vars

(***************************************************************************)
(* Properties of the threaded sort                                         *)
(***************************************************************************)
\* the tasks of the sort that are running or pushed, and the range of each
SortTasks ==
  {<<"thread", t>> : t \in {u \in PoolThreads : tp.thr[u].have_work}}
    \cup {<<"queue", i>> : i \in 1 .. Len(tp.queue)}

SortRange(k) ==
  IF k[1] = "thread" THEN <<tp.thr[k[2]].start, tp.thr[k[2]].end>>
  ELSE <<tp.queue[k[2]].job_start, tp.queue[k[2]].job_end>>

RangeIn(a, b) == b[1] <= a[1] /\ a[2] <= b[2]

MaxObjects == 3

BottomParams(leaf) ==
  [use_spatial_split |-> FALSE, max_leaf_size |-> leaf, min_leaf_size |-> 1,
   max_depth |-> MAX_DEPTH, spatial_split_alpha |-> 0, top_level |-> FALSE,
   use_unaligned_nodes |-> FALSE]

\* the bottom-level structure of a geometry: BVH2::build on the geometry alone
GeomBVH(geom, leaf) == FreshBuild(Scene(<<Object(geom, ZeroTfm)>>, FALSE), BottomParams(leaf))

MergeGeoms == <<PointsA, MeshB, HairA>>

\* the geometry of the scene; prim_offset is the count of primitives of the
\* geometry before it
RECURSIVE MergeGeometryFrom(_, _, _, _)
MergeGeometryFrom(need, leaf, prim_offset, acc) ==
  IF Len(acc) >= Len(MergeGeoms) THEN acc
  ELSE The({MergeGeometryFrom(need, leaf, prim_offset + Len(b.prim_index),
                              Append(acc, [need_build_bvh |-> need[Len(acc) + 1],
                                           prim_offset |-> prim_offset, bvh |-> b])) :
              b \in {GeomBVH(MergeGeoms[Len(acc) + 1], leaf)}})

\* an object of the scene: g is the index of its geometry
MergeObjectOf(g, visibility) ==
  [geom |-> MergeGeoms[g + 1], tfm |-> ZeroTfm, visibility |-> visibility, g |-> g]

TopParams == [BottomParams(1) EXCEPT !.top_level = TRUE]

\* add_references of the top-level build: one reference for an object whose
\* geometry has a bottom-level structure, else one per primitive
RECURSIVE TopRefsFrom(_, _, _, _)
TopRefsFrom(objects, geometry, tob, acc) ==
  IF tob >= Len(objects) THEN acc
  ELSE IF geometry[objects[tob + 1].g + 1].need_build_bvh
       THEN TopRefsFrom(objects, geometry, tob + 1,
              Append(acc, BVHReference(Object_bounds(objects[tob + 1]), -1, tob,
                                       PRIMITIVE_NONE)))
       ELSE TopRefsFrom(objects, geometry, tob + 1, GeomRefsFrom(objects, tob, 0, 0, acc))

\* BVHBuild::run of the top-level build: the builder and the primitive arrays
TopBuild(objects, geometry) ==
  RunToEnd(objects,
           RunReferences([b |-> [NoBuild EXCEPT !.params = TopParams, !.alive = TRUE],
                          p |-> [prim_type |-> <<>>, prim_index |-> <<>>,
                                 prim_object |-> <<>>]],
                         TopRefsFrom(objects, geometry, 0, <<>>)))

\* the pack of the top-level structure when pack_nodes begins
TopPack(objects, w) ==
  pack_primitives(objects, [PackedBVH EXCEPT !.prim_type = w.p.prim_type,
                                             !.prim_index = w.p.prim_index,
                                             !.prim_object = w.p.prim_object])

\* the sizes of the bottom-level structures of the geometry that has one
RECURSIVE MergeSizes(_, _, _)
MergeSizes(geometry, i, acc) ==
  IF i > Len(geometry) THEN acc
  ELSE IF geometry[i].need_build_bvh
  THEN MergeSizes(geometry, i + 1,
         [prim_index_size |-> acc.prim_index_size + Len(geometry[i].bvh.prim_index),
          nodes_size |-> acc.nodes_size + Len(geometry[i].bvh.nodes),
          leaf_nodes_size |-> acc.leaf_nodes_size + Len(geometry[i].bvh.leaf_nodes)])
  ELSE MergeSizes(geometry, i + 1, acc)

\* pack.prim_index[i] += objects[pack.prim_object[i]]->get_geometry()->prim_offset
MergeAdjustPrimIndex(pk, objects, geometry) ==
  [pk EXCEPT !.prim_index =
     [i \in 1 .. Len(pk.prim_index) |->
        IF pk.prim_index[i] # -1
        THEN pk.prim_index[i] + geometry[objects[pk.prim_object[i] + 1].g + 1].prim_offset
        ELSE pk.prim_index[i]]]

MergeResize(pk, sizes, num_objects) ==
  [pk EXCEPT !.prim_index = ArrayResize(@, sizes.prim_index_size),
             !.prim_type = ArrayResize(@, sizes.prim_index_size),
             !.prim_object = ArrayResize(@, sizes.prim_index_size),
             !.prim_visibility = ArrayResize(@, sizes.prim_index_size),
             !.nodes = ArrayResize(@, sizes.nodes_size),
             !.leaf_nodes = ArrayResize(@, sizes.leaf_nodes_size),
             !.object_node = ArrayResize(<<>>, num_objects)]

\* the sizes of the bottom-level structures of all the geometry
RECURSIVE MergeSizesAll(_, _, _)
MergeSizesAll(geometry, i, acc) ==
  IF i > Len(geometry) THEN acc
  ELSE MergeSizesAll(geometry, i + 1,
         [prim_index_size |-> acc.prim_index_size + Len(geometry[i].bvh.prim_index),
          nodes_size |-> acc.nodes_size + Len(geometry[i].bvh.nodes),
          leaf_nodes_size |-> acc.leaf_nodes_size + Len(geometry[i].bvh.leaf_nodes)])

\* space reserved for every geometry, whether it has a structure of its own
\* or not
pack_instances_begin_reserve_all(pk, nodes_size, leaf_nodes_size, objects, geometry) ==
  [pk |-> MergeResize(MergeAdjustPrimIndex(pk, objects, geometry),
                      MergeSizesAll(geometry, 1,
                                    [prim_index_size |-> Len(pk.prim_index),
                                     nodes_size |-> nodes_size,
                                     leaf_nodes_size |-> leaf_nodes_size]),
                      Len(objects)),
   m |-> [prim_offset |-> Len(pk.prim_index), nodes_offset |-> nodes_size,
          nodes_leaf_offset |-> leaf_nodes_size,
          pack_prim_index_offset |-> Len(pk.prim_index),
          pack_nodes_offset |-> nodes_size, pack_leaf_nodes_offset |-> leaf_nodes_size,
          object_offset |-> 0, geometry_map |-> {}, copies |-> <<>>]]

\* pack_instances up to the merge loop; pk is the pack as pack_nodes hands
\* it over, nodes and leaf_nodes cleared
pack_instances_begin(pk, nodes_size, leaf_nodes_size, objects, geometry) ==
  [pk |-> MergeResize(MergeAdjustPrimIndex(pk, objects, geometry),
                      MergeSizes(geometry, 1,
                                 [prim_index_size |-> Len(pk.prim_index),
                                  nodes_size |-> nodes_size,
                                  leaf_nodes_size |-> leaf_nodes_size]),
                      Len(objects)),
   m |-> [prim_offset |-> Len(pk.prim_index), nodes_offset |-> nodes_size,
          nodes_leaf_offset |-> leaf_nodes_size,
          pack_prim_index_offset |-> Len(pk.prim_index),
          pack_nodes_offset |-> nodes_size, pack_leaf_nodes_offset |-> leaf_nodes_size,
          object_offset |-> 0, geometry_map |-> {}, copies |-> <<>>]]

\* a lookup that never finds the geometry
geometry_map_find_none(geometry_map, g) == {}

\* geometry_map.find(geom): the offsets stored for the geometry
geometry_map_find(geometry_map, g) == {e[2] : e \in {f \in geometry_map : f[1] = g}}

\* the offset added whatever the sign of the index
MergeChild_inner_offset(c, noffset, noffset_leaf) == c + noffset

\* data.z += (data.z < 0) ? -noffset_leaf : noffset
MergeChild(c, noffset, noffset_leaf) == c + (IF c < 0 THEN -noffset_leaf ELSE noffset)

\* merge primitive, object and triangle indexes
MergePrims(pk, bvh, at, geom_prim_offset) ==
  [pk EXCEPT
     !.prim_index = [i \in 1 .. Len(@) |->
                       IF at < i /\ i <= at + Len(bvh.prim_index)
                       THEN bvh.prim_index[i - at] + geom_prim_offset ELSE @[i]],
     !.prim_type = [i \in 1 .. Len(@) |->
                      IF at < i /\ i <= at + Len(bvh.prim_index)
                      THEN bvh.prim_type[i - at] ELSE @[i]],
     !.prim_visibility = [i \in 1 .. Len(@) |->
                            IF at < i /\ i <= at + Len(bvh.prim_index)
                            THEN bvh.prim_visibility[i - at] ELSE @[i]],
     !.prim_object = [i \in 1 .. Len(@) |->
                        IF at < i /\ i <= at + Len(bvh.prim_index) THEN 0 ELSE @[i]]]

\* merge nodes: the leaf nodes, data.x and data.y moved by prim_offset
MergeLeafNodes(pk, bvh, at, prim_offset) ==
  [pk EXCEPT !.leaf_nodes =
     [i \in 1 .. Len(@) |->
        IF at < i /\ i <= at + Len(bvh.leaf_nodes)
        THEN <<bvh.leaf_nodes[i - at][1] + prim_offset,
               bvh.leaf_nodes[i - at][2] + prim_offset,
               bvh.leaf_nodes[i - at][3], bvh.leaf_nodes[i - at][4]>>
        ELSE @[i]]]

\* the words of one inner node with the two child indexes moved
MergeNodeWords(bvh_nodes, i, nsize, noffset, noffset_leaf) ==
  << <<bvh_nodes[i + 1][1], bvh_nodes[i + 1][2],
       MergeChild(bvh_nodes[i + 1][3], noffset, noffset_leaf),
       MergeChild(bvh_nodes[i + 1][4], noffset, noffset_leaf)>> >>
    \o SubSeq(bvh_nodes, i + 2, i + nsize)

\* merge nodes: the inner nodes, one node per pass
RECURSIVE MergeNodes(_, _, _, _, _, _)
MergeNodes(nodes, bvh_nodes, i, pack_nodes_offset, noffset, noffset_leaf) ==
  IF i >= Len(bvh_nodes) THEN [nodes |-> nodes, pack_nodes_offset |-> pack_nodes_offset]
  ELSE The({MergeNodes(CopyN(nodes, pack_nodes_offset,
                             MergeNodeWords(bvh_nodes, i, nsize, noffset, noffset_leaf)),
                       bvh_nodes, i + nsize, pack_nodes_offset + nsize, noffset, noffset_leaf) :
              nsize \in {IF PATH_RAY_NODE_UNALIGNED \in bvh_nodes[i + 1][1]
                         THEN BVH_UNALIGNED_NODE_SIZE ELSE BVH_NODE_SIZE}})

\* pack.object_node[object_offset++] = value
MergeObjectNode(pk, m, value) ==
  [pk |-> [pk EXCEPT !.object_node[m.object_offset + 1] = value],
   m |-> [m EXCEPT !.object_offset = @ + 1]]

\* the body of the merge loop past the lookup: the sub-tree of the
\* geometry g with the structure bvh is copied behind what is there
MergeCopy(pk, m, g, G, value) ==
  The({[pk |-> [MergeLeafNodes(MergePrims(pk, G.bvh, m.pack_prim_index_offset, G.prim_offset),
                               G.bvh, m.pack_leaf_nodes_offset, m.prim_offset)
                  EXCEPT !.object_node[m.object_offset + 1] = value,
                         !.nodes = n.nodes],
        m |-> [m EXCEPT
                 !.object_offset = @ + 1,
                 !.geometry_map = @ \cup {<<g, value>>},
                 !.pack_prim_index_offset = @ + Len(G.bvh.prim_index),
                 !.pack_leaf_nodes_offset = @ + Len(G.bvh.leaf_nodes),
                 !.pack_nodes_offset = n.pack_nodes_offset,
                 !.nodes_offset = @ + Len(G.bvh.nodes),
                 !.nodes_leaf_offset = @ + Len(G.bvh.leaf_nodes),
                 !.prim_offset = @ + Len(G.bvh.prim_index),
                 !.copies = Append(@, [geom |-> g, ob |-> m.object_offset,
                                       N |-> m.nodes_offset, L |-> m.nodes_leaf_offset,
                                       P |-> m.prim_offset])]] :
         n \in {MergeNodes(pk.nodes, G.bvh.nodes, 0, m.pack_nodes_offset,
                           m.nodes_offset, m.nodes_leaf_offset)}})

\* one pass of the merge loop of pack_instances, for the object at
\* object_offset
pack_instances_object(pk, m, objects, geometry) ==
  LET g == objects[m.object_offset + 1].g
      G == geometry[g + 1]
  IN  IF ~G.need_build_bvh THEN MergeObjectNode(pk, m, 0)
      ELSE IF geometry_map_find(m.geometry_map, g) # {}
      THEN MergeObjectNode(pk, m, The(geometry_map_find(m.geometry_map, g)))
      ELSE MergeCopy(pk, m, g, G,
                     IF G.bvh.root_index = -1 THEN -m.nodes_leaf_offset - 1
                     ELSE m.nodes_offset)

\* the ray types the objects of a scene are visible to
MergeVisibilities == {{"camera", "shadow"}, {"camera"}}

MergeObjects(visibility) ==
  UNION {[1 .. n -> {MergeObjectOf(g, visibility) : g \in 0 .. Len(MergeGeoms) - 1}] :
           n \in 1 .. MaxObjects}

\* the rest of pack_nodes: the nodes of the tree written to their slots
PackTree(tree, pk, node_size) ==
  PackRoot(tree,
           PackLoop(tree, pk, <<BVHStackEntry(0, 0)>>,
                    IF tree[1].leaf THEN 0 ELSE BVH_NODE_SIZE,
                    IF tree[1].leaf THEN 1 ELSE 0),
           node_size)

\* the primitive indexes the top-level structure holds for its own leaves,
\* less the prim_offset of their geometry: pidx - prim_offset
TopLocalPrims(pk, objects, geometry, n) ==
  [pk EXCEPT !.prim_index =
     [i \in 1 .. Len(pk.prim_index) |->
        IF i <= n /\ pk.prim_index[i] # -1
        THEN pk.prim_index[i] - geometry[objects[pk.prim_object[i] + 1].g + 1].prim_offset
        ELSE pk.prim_index[i]]]

\* refit_primitives reads the slots c0 .. -1 for a leaf of one object
\* instance, which pack_leaf stores as (~lo, 0)
TopRefitReadsOutOfBounds(pk, leaf_nodes_size) ==
  \E i \in 1 .. leaf_nodes_size : pk.leaf_nodes[i][1] < 0

\* what refit_nodes leaves when the assertion is compiled out: the refitted
\* nodes, or, after a read out of bounds, the nodes as they were (kept) or
\* nodes that are not determined
TopRefitNodes(pk, objects, geometry, prims, leaf_nodes_size, kept) ==
  IF TopRefitReadsOutOfBounds(pk, leaf_nodes_size)
  THEN IF kept THEN pk
       ELSE [pk EXCEPT !.nodes = ArrayResize(<<>>, Len(pk.nodes)),
                       !.leaf_nodes = ArrayResize(<<>>, Len(pk.leaf_nodes))]
  ELSE [refit_nodes(objects, TopLocalPrims(pk, objects, geometry, prims))
          EXCEPT !.prim_index = pk.prim_index]

MergeInit ==
  /\ scene = Scene(<<Object(MeshA, ZeroTfm)>>, FALSE)
  /\ sp = [refs |-> <<>>, prev |-> <<>>, steps |-> 0, op |-> "init", dups |-> 0,
           sr |-> NoSplit]
  /\ params = TopParams
  /\ progress = [cancel |-> FALSE]
  /\ bld = NoBuild
  /\ pc = "idle"
  /\ hist = NoHist
  /\ tp = NoPool
  /\ \E visibility \in MergeVisibilities, need \in [1 .. Len(MergeGeoms) -> BOOLEAN],
        leaf \in {1, 2} :
       \E objects \in MergeObjects(visibility) :
         \E geometry \in {MergeGeometryFrom(need, leaf, 0, <<>>)} :
           \E w \in {TopBuild(objects, geometry)} :
             \* a geometry that no object uses has no bottom-level structure
             /\ \A g \in 1 .. Len(MergeGeoms) :
                  need[g] => \E o \in 1 .. Len(objects) : objects[o].g = g - 1
             /\ top = [phase |-> "begin", objects |-> objects, geometry |-> geometry,
                       tree |-> run_end(w.b, FALSE).nodes, prims |-> Len(w.p.prim_index),
                       nodes_size |-> NumInnerNodes(w.b.nodes) * BVH_NODE_SIZE,
                       leaf_nodes_size |-> NumLeafNodes(w.b.nodes) * BVH_NODE_LEAF_SIZE]
             /\ pack = TopPack(objects, w)

mergeVars == <<scene, sp, params, progress, bld, pc, hist, tp>>

\* pack_nodes of the top-level structure calls pack_instances
MergeBegin ==
  /\ top.phase = "begin"
  /\ \E r \in {pack_instances_begin(pack, top.nodes_size, top.leaf_nodes_size,
                                    top.objects, top.geometry)} :
       /\ pack' = r.pk
       /\ top' = [phase |-> "merge", objects |-> top.objects, geometry |-> top.geometry,
                  tree |-> top.tree, prims |-> top.prims,
                  nodes_size |-> top.nodes_size, leaf_nodes_size |-> top.leaf_nodes_size,
                  m |-> r.m, before |-> pack, size_ok |-> TRUE]
  /\ UNCHANGED mergeVars

\* the merge loop handles the next object
MergeObject ==
  /\ top.phase = "merge"
  /\ \E r \in {pack_instances_object(pack, top.m, top.objects, top.geometry)} :
       /\ pack' = r.pk
       /\ top' = [top EXCEPT !.m = r.m,
                             !.phase = IF r.m.object_offset >= Len(top.objects)
                                       THEN "merged" ELSE "merge"]
  /\ UNCHANGED mergeVars

\* pack_nodes writes the nodes of the top-level tree and sets root_index
MergePackTree ==
  /\ top.phase = "merged"
  /\ \E r \in {PackTree(top.tree, pack, top.nodes_size)} :
       /\ pack' = r.pk
       /\ top' = [top EXCEPT !.phase = "packed", !.size_ok = r.size_ok]
  /\ UNCHANGED mergeVars

\* BVH2::refit of the top-level structure up to refit_nodes
MergeRefit ==
  /\ top.phase = "packed"
  /\ pack' = pack_primitives(top.objects, pack)
  /\ top' = [top EXCEPT !.phase = "refit", !.before = pack]
  /\ UNCHANGED mergeVars

\* refit_nodes of the top-level structure: assert(!params.top_level) ends
\* the program, or is compiled out and refit_node runs
MergeRefitNodes ==
  /\ top.phase = "refit"
  /\ \E ndebug \in BOOLEAN :
       IF ndebug
       THEN /\ \E kept \in BOOLEAN :
                 pack' = TopRefitNodes(pack, top.objects, top.geometry, top.prims,
                                       top.leaf_nodes_size, kept)
            /\ top' = [top EXCEPT !.phase = "refitted"]
       ELSE /\ pack' = pack
            /\ top' = [top EXCEPT !.phase = "asserted"]
  /\ UNCHANGED mergeVars

MergeNext == MergeBegin \/ MergeObject \/ MergePackTree \/ MergeRefit \/ MergeRefitNodes

SpecMerge == MergeInit /\ [][MergeNext]_vars

(***************************************************************************)
(* SpecMixed: the constructor of BVHMixedSplit and BVHMixedSplit::split    *)
(* (bvh/split.h) on the references of a scene, as build_node calls them.   *)
(* sp holds the call: the references, the range over them, the level, the  *)
(* builder, then the candidates (split) and the result of split (res).     *)
(***************************************************************************)
MixedLevels == {0, MAX_SPATIAL_DEPTH - 1, MAX_SPATIAL_DEPTH}

\* values of builder.spatial_min_overlap
MixedOverlaps == {0, 16, 4096}

MixedScenes == BuildScenes

MixedBuilder(use_spatial_split, max_leaf_size, spatial_min_overlap) ==
  [BVHBuild([BottomParams(max_leaf_size) EXCEPT !.use_spatial_split = use_spatial_split])
     EXCEPT !.spatial_min_overlap = spatial_min_overlap]

MixedRange(refs) == BVHRange(GrowRefs(refs, 0, Len(refs), BoundBox_empty), 0, Len(refs))

NoMixedResult ==
  [refs |-> <<>>, left |-> BVHRange(BoundBox_empty, 0, 0),
   right |-> BVHRange(BoundBox_empty, 0, 0), dups |-> 0, kind |-> "none"]

MixedInit ==
  /\ scene \in MixedScenes
  /\ \E use_spatial_split \in BOOLEAN, max_leaf_size \in {1, 8},
        spatial_min_overlap \in MixedOverlaps, level \in MixedLevels :
       sp = [op |-> "init", refs |-> SceneRefs(scene), range |-> MixedRange(SceneRefs(scene)),
             level |-> level,
             builder |-> MixedBuilder(use_spatial_split, max_leaf_size, spatial_min_overlap),
             split |-> NoSplit, res |-> NoMixedResult]
  /\ BuildIdle

\* build_node constructs the BVHMixedSplit of the range
MixedConstruct ==
  /\ sp.op = "init"
  /\ sp' = [sp EXCEPT !.op = "candidates",
                      !.split = BVHMixedSplit(scene.objs, sp.builder, sp.range, sp.refs,
                                              sp.level)]
  /\ UNCHANGED <<top, tp, scene, params, progress, pack, bld, pc, hist>>

\* build_node calls split.split(this, left, right, range) with left and
\* right empty
MixedSplit ==
  /\ sp.op = "candidates" /\ ~sp.split.no_split
  /\ sp' = [sp EXCEPT !.op = "split",
                      !.res = BVHMixedSplit_split(scene.objs, sp.builder, sp.split, sp.range)]
  /\ UNCHANGED <<top, tp, scene, params, progress, pack, bld, pc, hist>>

MixedNext == MixedConstruct \/ MixedSplit

SpecMixed == MixedInit /\ [][MixedNext]_vars

(***************************************************************************)
(* SpecSplit: BVHSpatialSplit::split (bvh/split.cpp) one loop at a time.   *)
(* sp holds the call: the reference array before (refs), the range, the    *)
(* plane (dim, pos), the locals of split (st), and of the last pass of the *)
(* second loop the locals before it (prev) and the three costs (cand).     *)
(***************************************************************************)
SplitRanges(refs) ==
  {BVHRange(BoundBox_empty, start, size) :
     start \in 0 .. Len(refs) - 1, size \in 1 .. Len(refs)}

SplitLocals(refs, range) ==
  [refs |-> refs, i |-> range.start,
   left_start |-> range.start, left_end |-> range.start,
   right_start |-> RangeEnd(range), right_end |-> RangeEnd(range),
   left_bounds |-> BoundBox_empty, right_bounds |-> BoundBox_empty,
   new_refs |-> <<>>]

NoCandidates == [unsplitLeftSAH |-> 0, unsplitRightSAH |-> 0, duplicateSAH |-> 0]

SplitInit ==
  /\ scene \in SpatialScenes
  /\ \E range \in SplitRanges(SceneRefs(scene)), dim \in Dims, pos \in 1 .. MaxPos :
       /\ RangeEnd(range) <= Len(SceneRefs(scene))
       /\ sp = [op |-> "init", refs |-> SceneRefs(scene), range |-> range, dim |-> dim,
                pos |-> pos, st |-> SplitLocals(SceneRefs(scene), range),
                prev |-> SplitLocals(SceneRefs(scene), range), cand |-> NoCandidates,
                passes |-> 0, res |-> NoMixedResult]
  /\ BuildIdle

\* the first loop: the references entirely on one side
SplitCategorize ==
  /\ sp.op = "init"
  /\ sp' = [sp EXCEPT !.op = "distribute",
                      !.st = SpatialCategorize(scene.objs, sp.st, sp.dim, sp.pos, FALSE)]
  /\ UNCHANGED <<scene, buildVars>>

SplitCurrRef(st) ==
  BVHReference(get_prim_bounds(scene.objs, st.refs[st.left_end + 1], FALSE),
               st.refs[st.left_end + 1].prim_index,
               st.refs[st.left_end + 1].prim_object,
               st.refs[st.left_end + 1].prim_type)

\* one pass of the second loop: the reference at left_end is unsplit to the
\* left, unsplit to the right or duplicated
SplitPass ==
  /\ sp.op = "distribute" /\ sp.st.left_end < sp.st.right_start
  /\ \E sr \in {split_reference(scene.objs, SplitCurrRef(sp.st), sp.dim, sp.pos)} :
       sp' = [sp EXCEPT !.st = SpatialSplitOne(scene.objs, sp.st, sp.dim, sp.pos,
                                               SplitCurrRef(sp.st), sr),
                        !.prev = sp.st,
                        !.cand = SpatialCandidates(sp.st, SplitCurrRef(sp.st), sr),
                        !.passes = @ + 1]
  /\ UNCHANGED <<scene, buildVars>>

\* the end of split: the duplicates are inserted and the ranges returned
SplitInsert ==
  /\ sp.op = "distribute" /\ sp.st.left_end >= sp.st.right_start
  /\ sp' = [sp EXCEPT !.op = "done", !.res = SpatialInsert(sp.st, FALSE)]
  /\ UNCHANGED <<scene, buildVars>>

SplitNext == SplitCategorize \/ SplitPass \/ SplitInsert

SpecSplit == SplitInit /\ [][SplitNext]_vars

(***************************************************************************)
(* Properties of the instance merge.                                       *)
(***************************************************************************)
MergeStarted == top.phase \in {"merge", "merged", "packed"}

\* the copies made of the geometry g
CopiesOf(g) == {k \in 1 .. Len(top.m.copies) : top.m.copies[k].geom = g}

\* the objects the merge loop has handled that use the geometry g
MergedObjectsOf(g) == {o \in 0 .. top.m.object_offset - 1 : top.objects[o + 1].g = g}

\* where a copy starts for traversal: its root node, or its only leaf
CopyEntry(k) ==
  IF top.geometry[top.m.copies[k].geom + 1].bvh.root_index = -1
  THEN -top.m.copies[k].L - 1 ELSE top.m.copies[k].N

\* C12: two objects of one geometry that has its own bottom-level structure
\* share one copy of its sub-tree, made at the first of them, and their
\* object_node entries are equal and point at that copy.
C12_InstancesShareOneCopy ==
  MergeStarted =>
    \A g \in 0 .. Len(top.geometry) - 1 :
      (top.geometry[g + 1].need_build_bvh /\ MergedObjectsOf(g) # {}) =>
        /\ Cardinality(CopiesOf(g)) = 1
        /\ \A k \in CopiesOf(g) :
             /\ \A o \in MergedObjectsOf(g) :
                  top.m.copies[k].ob <= o /\ pack.object_node[o + 1] = CopyEntry(k)
             /\ top.m.copies[k].ob \in MergedObjectsOf(g)

C12_Witness ==
  /\ top.phase = "packed"
  /\ \E g \in 0 .. Len(top.geometry) - 1 :
       /\ top.geometry[g + 1].need_build_bvh
       /\ top.geometry[g + 1].bvh.root_index = -1
       /\ Cardinality(MergedObjectsOf(g)) >= 2
       /\ \A k \in CopiesOf(g) : top.m.copies[k].L > 1
  /\ Len(top.m.copies) >= 2

\* the offsets at which the inner nodes of a packed structure start
RECURSIVE NodeStarts(_, _)
NodeStarts(nodes, i) ==
  IF i >= Len(nodes) THEN {}
  ELSE {i} \cup NodeStarts(nodes, i + (IF PATH_RAY_NODE_UNALIGNED \in nodes[i + 1][1]
                                       THEN BVH_UNALIGNED_NODE_SIZE ELSE BVH_NODE_SIZE))

NodeEnd(nodes, i) ==
  i + (IF PATH_RAY_NODE_UNALIGNED \in nodes[i + 1][1]
       THEN BVH_UNALIGNED_NODE_SIZE ELSE BVH_NODE_SIZE)

\* a child index moved to a copy at node offset N and leaf offset L
MovedChild(c, N, L) == IF c >= 0 THEN c + N ELSE -((-c - 1) + L) - 1

CopyIsMoved(B, gpo, N, L, P) ==
  /\ \A s \in NodeStarts(B.nodes, 0) :
       /\ pack.nodes[N + s + 1] = <<B.nodes[s + 1][1], B.nodes[s + 1][2],
                                    MovedChild(B.nodes[s + 1][3], N, L),
                                    MovedChild(B.nodes[s + 1][4], N, L)>>
       /\ \A w \in s + 2 .. NodeEnd(B.nodes, s) : pack.nodes[N + w] = B.nodes[w]
  /\ \A i \in 1 .. Len(B.leaf_nodes) :
       pack.leaf_nodes[L + i] = <<B.leaf_nodes[i][1] + P, B.leaf_nodes[i][2] + P,
                                  B.leaf_nodes[i][3], B.leaf_nodes[i][4]>>
  /\ \A i \in 1 .. Len(B.prim_index) :
       /\ pack.prim_index[P + i] = B.prim_index[i] + gpo
       /\ pack.prim_type[P + i] = B.prim_type[i]
       /\ pack.prim_visibility[P + i] = B.prim_visibility[i]

\* C13: a bottom-level structure copied to node offset N, leaf offset L and
\* primitive offset P has its child indexes, leaf ranges and primitive
\* indexes moved by the offsets and every other word copied as it is.
C13_CopyRewritesOffsets ==
  MergeStarted =>
    \A k \in 1 .. Len(top.m.copies) :
      CopyIsMoved(top.geometry[top.m.copies[k].geom + 1].bvh,
                  top.geometry[top.m.copies[k].geom + 1].prim_offset,
                  top.m.copies[k].N, top.m.copies[k].L, top.m.copies[k].P)

C13_Witness ==
  /\ top.phase = "packed"
  /\ \E k \in 1 .. Len(top.m.copies) :
       /\ top.m.copies[k].N > 0
       /\ top.m.copies[k].P > 0
       /\ top.geometry[top.m.copies[k].geom + 1].prim_offset > 0
       /\ \E s \in NodeStarts(top.geometry[top.m.copies[k].geom + 1].bvh.nodes, 0) :
            /\ top.geometry[top.m.copies[k].geom + 1].bvh.nodes[s + 1][3] < 0
            /\ pack.nodes[top.m.copies[k].N + s + 1][3] <
                 top.geometry[top.m.copies[k].geom + 1].bvh.nodes[s + 1][3]
       /\ \E s \in NodeStarts(top.geometry[top.m.copies[k].geom + 1].bvh.nodes, 0) :
            \E w \in {3, 4} :
              top.geometry[top.m.copies[k].geom + 1].bvh.nodes[s + 1][w] > 0

(***************************************************************************)
(* Properties of the node references                                       *)
(***************************************************************************)
MaxSlot == 4

Packed == pc = "idle" /\ hist.outcome = "packed"

\* the slot a stored reference denotes
DecodedSlot(v) == IF v < 0 THEN -v - 1 ELSE v

\* the references the inner nodes of a packed structure store
ChildRefs(pk) == {<<idx, k>> : idx \in PackedInner(pk), k \in {1, 2}}

\* what is encoded for a node with a slot is negative exactly for a leaf and
\* decodes to the slot, as it is and moved by the instance merge
EncodeRoundTrip(tree, n, s) ==
  /\ encodeIdx(tree, BVHStackEntry(n, s)) < 0 <=> tree[n + 1].leaf
  /\ DecodedSlot(encodeIdx(tree, BVHStackEntry(n, s))) = s
  /\ \A off \in 0 .. MaxSlot :
       /\ MergeChild(encodeIdx(tree, BVHStackEntry(n, s)), off, off + 1) < 0 <=> tree[n + 1].leaf
       /\ DecodedSlot(MergeChild(encodeIdx(tree, BVHStackEntry(n, s)), off, off + 1))
            = s + (IF tree[n + 1].leaf THEN off + 1 ELSE off)

C17_Original_TopLevelRefitSkipped ==
  top.phase \in {"asserted", "refitted"} =>
    /\ top.phase = "asserted"
    /\ ToString(pack.prim_visibility) = ToString(top.before.prim_visibility)
    /\ ToString(pack.nodes) = ToString(top.before.nodes)
    /\ ToString(pack.leaf_nodes) = ToString(top.before.leaf_nodes)
    /\ pack.prim_index = top.before.prim_index
    /\ pack.prim_object = top.before.prim_object
    /\ pack.prim_type = top.before.prim_type
    /\ pack.object_node = top.before.object_node
    /\ pack.root_index = top.before.root_index

(***************************************************************************)
(* Properties of the packer                                                *)
(***************************************************************************)
\* the slot of every node of the sub-tree of n, read from the packed
\* structure along the tree: pairs <<node, stored reference>>
RECURSIVE SlotsBelow(_, _, _, _)
SlotsBelow(tree, pk, n, ref) ==
  IF tree[n + 1].leaf \/ ref < 0 \/ ref + BVH_NODE_SIZE > Len(pk.nodes)
  THEN {<<n, ref>>}
  ELSE {<<n, ref>>} \cup SlotsBelow(tree, pk, tree[n + 1].c0, PackedChild(pk, ref, 1))
                    \cup SlotsBelow(tree, pk, tree[n + 1].c1, PackedChild(pk, ref, 2))

SlotsOfTree(tree, pk) == SlotsBelow(tree, pk, 0, IF pk.root_index = -1 THEN -1 ELSE 0)

SlotOf(slots, n) == The({q[2] : q \in {r \in slots : r[1] = n}})

\* every slot of the arrays was written
AllSlotsWritten(pk) ==
  /\ \A i \in 1 .. Len(pk.nodes) : ToString(pk.nodes[i]) # ToString(Uninitialized)
  /\ \A i \in 1 .. Len(pk.leaf_nodes) : ToString(pk.leaf_nodes[i]) # ToString(Uninitialized)

\* a leaf's slot holds the leaf, an inner node's children come after it, the
\* first before the second among children of one kind
SlotsInOrder(tree, pk, slots) ==
  \A n \in 0 .. Len(tree) - 1 :
    IF tree[n + 1].leaf
    THEN /\ SlotOf(slots, n) < 0
         /\ pk.leaf_nodes[-SlotOf(slots, n)][3] = tree[n + 1].visibility
         /\ pk.leaf_nodes[-SlotOf(slots, n)][1] \in {tree[n + 1].lo, -tree[n + 1].lo - 1}
    ELSE /\ SlotOf(slots, n) >= 0
         /\ SlotOf(slots, n) % BVH_NODE_SIZE = 0
         /\ \A c \in {tree[n + 1].c0, tree[n + 1].c1} :
              ~tree[c + 1].leaf => SlotOf(slots, c) > SlotOf(slots, n)
         /\ (tree[tree[n + 1].c0 + 1].leaf = tree[tree[n + 1].c1 + 1].leaf) =>
              DecodedSlot(SlotOf(slots, tree[n + 1].c0))
                < DecodedSlot(SlotOf(slots, tree[n + 1].c1))

InRefit == hist.outcome \in {"packed", "refitted"} /\ hist.refits > 0 /\ pc \in {"idle", "refit"}

MixedDone == sp.op = "split"

\* the spatial split is the one BVHMixedSplit::split applies first
SpatialWins ==
  /\ sp.builder.params.use_spatial_split
  /\ sp.split.spatial.sah = Min2(Min2(sp.split.leafSAH, sp.split.object.sah),
                                 sp.split.spatial.sah)

\* the ranges of the object split of the candidates
ObjectLeft ==
  BVHRange(sp.split.object.left_bounds, sp.range.start, sp.split.object.num_left)

ObjectRight ==
  BVHRange(sp.split.object.right_bounds, sp.range.start + sp.split.object.num_left,
           sp.range.size - sp.split.object.num_left)

SpatialResultIs(res) ==
  /\ sp.res.kind = "spatial"
  /\ sp.res.left = res.left /\ sp.res.right = res.right
  /\ sp.res.refs = res.refs

ObjectResult ==
  /\ sp.res.kind = "object"
  /\ sp.res.left = ObjectLeft /\ sp.res.right = ObjectRight

MixedOverlapArea == BoundBox_safe_area(MixedOverlap(sp.split.object))

SpatialNotUsed ==
  /\ sp.split.spatial = NoSpatialSplit
  /\ MixedDone => sp.res.kind # "spatial"

\* C19 as claimed: the spatial split is evaluated only when spatial splits
\* are enabled, the level is below the maximum spatial depth and the boxes of
\* the object split overlap by more area than the threshold; otherwise the
\* spatial candidate keeps its infinite cost and is never applied.
C19_Original_OverlapAboveThreshold ==
  sp.op \in {"candidates", "split"} =>
    (~(/\ sp.builder.params.use_spatial_split
       /\ sp.level < MAX_SPATIAL_DEPTH
       /\ MixedOverlapArea > sp.builder.spatial_min_overlap)
       => SpatialNotUsed)

\* C19: the spatial split is evaluated only when spatial splits are enabled,
\* the level is below the maximum spatial depth and the boxes of the object
\* split overlap by at least the threshold; otherwise the spatial candidate
\* keeps its infinite cost and is never applied.
C19_OverlapAtLeastThreshold ==
  sp.op \in {"candidates", "split"} =>
    (~(/\ sp.builder.params.use_spatial_split
       /\ sp.level < MAX_SPATIAL_DEPTH
       /\ MixedOverlapArea >= sp.builder.spatial_min_overlap)
       => SpatialNotUsed)

\* spatial splits enabled, the level below the maximum, an overlap that is
\* not empty but below the threshold: the object split was applied
C19_Witness ==
  /\ MixedDone
  /\ sp.builder.params.use_spatial_split /\ sp.level < MAX_SPATIAL_DEPTH
  /\ MixedOverlapArea > 0 /\ MixedOverlapArea < sp.builder.spatial_min_overlap
  /\ sp.split.spatial.sah = FLT_MAX
  /\ sp.res.kind = "object"

(***************************************************************************)
(* Properties of BVHSpatialSplit::split                                    *)
(***************************************************************************)
\* the last pass left the reference whole on the left
UnsplitLeft ==
  /\ sp.st.left_end = sp.prev.left_end + 1 /\ sp.st.right_start = sp.prev.right_start
  /\ sp.st.right_end = sp.prev.right_end /\ sp.st.new_refs = sp.prev.new_refs
  /\ sp.st.refs[sp.prev.left_end + 1] = sp.prev.refs[sp.prev.left_end + 1]

\* the last pass left the reference whole on the right
UnsplitRight ==
  /\ sp.st.left_end = sp.prev.left_end /\ sp.st.right_start = sp.prev.right_start - 1
  /\ sp.st.right_end = sp.prev.right_end /\ sp.st.new_refs = sp.prev.new_refs
  /\ sp.st.refs[sp.st.right_start + 1] = sp.prev.refs[sp.prev.left_end + 1]

\* the last pass duplicated the reference: one new reference
Duplicated ==
  /\ sp.st.left_end = sp.prev.left_end + 1 /\ sp.st.right_start = sp.prev.right_start
  /\ sp.st.right_end = sp.prev.right_end + 1
  /\ Len(sp.st.new_refs) = Len(sp.prev.new_refs) + 1

CandMin == Min2(Min2(sp.cand.unsplitLeftSAH, sp.cand.unsplitRightSAH), sp.cand.duplicateSAH)

\* C20: every reference on both sides of the plane gets one of three
\* outcomes, one of the lowest combined SAH: unsplit to the left, unsplit to
\* the right, or duplicated, which adds one new reference; after the split
\* the array is longer by the number d of duplications, left.size() +
\* right.size() = range.size() + d and left.end() = right.start().
C20_SpatialSplitOutcomes ==
  /\ (sp.op = "distribute" /\ sp.passes > 0) =>
       /\ Cardinality({o \in {"left", "right", "duplicate"} :
                         \/ o = "left" /\ UnsplitLeft
                         \/ o = "right" /\ UnsplitRight
                         \/ o = "duplicate" /\ Duplicated}) = 1
       /\ UnsplitLeft => sp.cand.unsplitLeftSAH = CandMin
       /\ UnsplitRight => sp.cand.unsplitRightSAH = CandMin
       /\ Duplicated => sp.cand.duplicateSAH = CandMin
       /\ Len(sp.st.refs) = Len(sp.refs)
  /\ sp.op = "done" =>
       /\ sp.res.dups = Len(sp.st.new_refs)
       /\ Len(sp.res.refs) = Len(sp.refs) + sp.res.dups
       /\ sp.res.left.size + sp.res.right.size = sp.range.size + sp.res.dups
       /\ RangeEnd(sp.res.left) = sp.res.right.start
       /\ sp.res.left.start = sp.range.start
       /\ RangeEnd(sp.res.right) = RangeEnd(sp.range) + sp.res.dups
       /\ sp.res = BVHSpatialSplit_split(scene.objs, sp.refs, sp.range, sp.dim, sp.pos, FALSE)

\* a split that duplicated a reference and left another whole
C20_Witness ==
  /\ sp.op = "done"
  /\ sp.res.dups >= 1
  /\ sp.passes > sp.res.dups
  /\ sp.res.left.size > 0 /\ sp.res.right.size > 0

(***************************************************************************)
(* Properties of the depth of the tree                                     *)
(***************************************************************************)
\* nothing of the build in progress lies below the depth limit
WithinDepth ==
  /\ \A i \in 1 .. Len(bld.nodes) : bld.nodes[i].level <= bld.params.max_depth
  /\ \A k \in 1 .. Len(bld.stack) : bld.stack[k].level <= bld.params.max_depth

\* every leaf at the depth limit that is larger than min_leaf_size was
\* forced, whatever the costs
LeavesAtLimitForced ==
  \A i \in LeafNodes :
    (bld.nodes[i].level >= bld.params.max_depth
       /\ LeafSize(i) > bld.params.min_leaf_size) => bld.nodes[i].forced

\* l is the record of an object split of two or more references: both
\* sides are non-empty and smaller than the range
ObjectSplitShrinks(l) ==
  (l.kind \in {"binned", "object"} /\ l.range.size >= 2) =>
    /\ l.left.size >= 1 /\ l.right.size >= 1
    /\ l.left.size < l.range.size /\ l.right.size < l.range.size

\* a call of build_node ends the range on top of the stack, or replaces it
\* by its two sides one level deeper, which the depth limit allows only to
\* a range above it
BuildStepDescends ==
  (pc = "run" /\ pc' = "run" /\ bld'.stack # bld.stack) =>
    \/ bld'.stack = Tail(bld.stack)
    \/ /\ Len(bld'.stack) = Len(bld.stack) + 1
       /\ Tail(Tail(bld'.stack)) = Tail(bld.stack)
       /\ bld'.stack[1].level = Head(bld.stack).level + 1
       /\ bld'.stack[2].level = Head(bld.stack).level + 1
       /\ Head(bld.stack).level < bld.params.max_depth

\* C21: no node and no pending range of a build lies deeper than the
\* maximum recursion depth, a range that reaches the depth limit becomes a
\* leaf whatever the costs, every object split of two or more references
\* yields two non-empty, strictly smaller ranges, and every call of
\* build_node ends a pending range or replaces it by two ranges one level
\* deeper, so that the build terminates: the pending ranges decrease in the
\* multiset order of their distances to the depth limit.
C21_BuildTerminatesWithinDepth ==
  /\ [](WithinDepth /\ LeavesAtLimitForced /\ ObjectSplitShrinks(bld.last))
  /\ [][BuildStepDescends]_vars

\* a finished build with spatial splits that duplicated a reference and was
\* stopped by the depth limit at a leaf larger than max_leaf_size
C21_Witness ==
  /\ TreeBuilt /\ params.use_spatial_split /\ hist.dups > 0
  /\ \E i \in LeafNodes :
       /\ bld.nodes[i].forced /\ bld.nodes[i].level = bld.params.max_depth
       /\ LeafSize(i) > bld.params.max_leaf_size

(***************************************************************************)
(* SpecBinning: the constructor of BVHObjectBinning and its split          *)
(* (bvh/binning.cpp) on any range of the references of a scene.  sp holds  *)
(* the reference array before (prims), the range with the bounds of its    *)
(* references (job), the binning range constructed (bin) and what split    *)
(* returned (res).                                                         *)
(***************************************************************************)
\* three points of one centre
PointsC == Geom("pointcloud", << <<4, 4, 4>>, <<4, 4, 4>>, <<4, 4, 4>> >>, <<1, 2, 3>>, <<>>)
\* two points of one centre and a third one beside them
PointsD == Geom("pointcloud", << <<4, 4, 4>>, <<4, 4, 4>>, <<8, 4, 4>> >>, <<1, 2, 1>>, <<>>)

BinningScenes ==
  BuildScenes \cup { Scene(<<Object(PointsC, ZeroTfm)>>, FALSE),
                     Scene(<<Object(PointsD, ZeroTfm)>>, FALSE) }

\* the range [start, start + size) with the bounds of its references
BinningJob(prims, start, size) ==
  The({BVHRangeC(b.geom, b.cent, start, size) : b \in
         {BinGrowRange(prims, start, start + size,
                       [geom |-> BoundBox_empty, cent |-> BoundBox_empty])}})

NoBinning == BVHRangeC(BoundBox_empty, BoundBox_empty, 0, 0)

BinningInit ==
  /\ scene \in BinningScenes
  /\ \E start \in 0 .. Len(SceneRefs(scene)) - 1 :
       \E size \in 1 .. Len(SceneRefs(scene)) - start :
         sp = [op |-> "init", prims |-> SceneRefs(scene),
               job |-> BinningJob(SceneRefs(scene), start, size),
               bin |-> NoBinning,
               res |-> [prims |-> <<>>, left |-> NoBinning, right |-> NoBinning]]
  /\ BuildIdle

\* BVHObjectBinning::BVHObjectBinning
BinningConstruct ==
  /\ sp.op = "init"
  /\ sp' = [sp EXCEPT !.op = "binned", !.bin = BVHObjectBinning(sp.job, sp.prims)]
  /\ UNCHANGED <<scene, buildVars>>

\* BVHObjectBinning::split, which build_node calls for a range of more
\* than min_leaf_size references
BinningSplit ==
  /\ sp.op = "binned" /\ sp.bin.size >= 2
  /\ sp' = [sp EXCEPT !.op = "split", !.res = BVHObjectBinning_split(sp.bin, sp.prims)]
  /\ UNCHANGED <<scene, buildVars>>

BinningNext == BinningConstruct \/ BinningSplit

SpecBinning == BinningInit /\ [][BinningNext]_vars

(***************************************************************************)
(* SpecRanges: one call of BVHSpatialSplit::split, any range of the        *)
(* references of a scene, any plane, without and with an aligned space.    *)
(* sp holds the call (refs, range, dim, pos, aligned) and what it returns  *)
(* (res).                                                                  *)
(***************************************************************************)
\* two points of one centre and one radius: the plane through the centre has
\* both on both sides
PointsE == Geom("pointcloud", << <<4, 4, 4>>, <<4, 4, 4>> >>, <<2, 2>>, <<>>)

RangesScenes == SpatialScenes \cup {Scene(<<Object(PointsE, ZeroTfm)>>, FALSE)}

RangesInit ==
  /\ scene \in RangesScenes
  /\ \E range \in SplitRanges(SceneRefs(scene)), dim \in Dims, pos \in 0 .. MaxPos,
        aligned \in BOOLEAN :
       /\ RangeEnd(range) <= Len(SceneRefs(scene))
       /\ sp = [op |-> "init", refs |-> SceneRefs(scene), range |-> range, dim |-> dim,
                pos |-> pos, aligned |-> aligned, res |-> NoMixedResult]
  /\ BuildIdle

\* BVHSpatialSplit::split
RangesSplit ==
  /\ sp.op = "init"
  /\ sp' = [sp EXCEPT !.op = "done",
                      !.res = BVHSpatialSplit_split(scene.objs, sp.refs, sp.range, sp.dim,
                                                    sp.pos, sp.aligned)]
  /\ UNCHANGED <<scene, buildVars>>

RangesNext == RangesSplit

SpecRanges == RangesInit /\ [][RangesNext]_vars

(***************************************************************************)
(* Properties of the binned object split                                   *)
(***************************************************************************)
\* extent of the centroid bounds of a range on axis d
CentExtent(rng, d) == rng.cent.max[d + 1] - rng.cent.min[d + 1]

\* the binning ranges constructed so far
Binned ==
  IF sp.op = "init" THEN {}
  ELSE IF sp.op = "binned" THEN {sp.bin}
  ELSE {sp.bin, sp.res.left, sp.res.right}

\* C22 as claimed: the dim reported by BVHObjectBinning is always an axis on
\* which the centroid bounds of the range have positive extent.
C22_Original_DimHasExtent ==
  \A rng \in Binned : CentExtent(rng, rng.dim) > 0

\* C22: the cost of every axis on which the centroid bounds have no extent
\* is FLT_MAX when the dimension is picked; if some axis has positive
\* extent the dim reported is such an axis, and if none has (one reference,
\* or references of one centroid) dim is 0 and splitSAH is FLT_MAX.
C22_DimHasExtentIfAny ==
  \A rng \in Binned :
    /\ \A d \in Dims : CentExtent(rng, d) <= 0 => rng.bestSAH[d + 1] = FLT_MAX
    /\ (\E d \in Dims : CentExtent(rng, d) > 0) => CentExtent(rng, rng.dim) > 0
    /\ (\A d \in Dims : CentExtent(rng, d) <= 0) => rng.dim = 0 /\ rng.splitSAH = FLT_MAX

\* a range of several references without extent on one axis, for which
\* another axis than the first was picked
C22_Witness ==
  /\ sp.op = "binned" /\ sp.bin.size >= 2
  /\ \E d \in Dims : CentExtent(sp.bin, d) = 0
  /\ sp.bin.dim > 0 /\ sp.bin.splitSAH < FLT_MAX

\* the references of the range the binned partition puts to the left
BinLeftCount ==
  Cardinality({i \in 0 .. sp.bin.size - 1 :
                 get_bin(sp.bin, BoundBox_center2(sp.prims[sp.bin.start + i + 1].bounds),
                         sp.bin.dim) < sp.bin.pos})

\* the binned partition of the range leaves one side empty
BinNoProgress == BinLeftCount = 0 \/ BinLeftCount = sp.bin.size

\* geometry and centroid bounds of the references of rng in prims
BinOwnBounds(prims, rng) ==
  BinGrowRange(prims, rng.start, rng.start + rng.size,
               [geom |-> BoundBox_empty, cent |-> BoundBox_empty])

\* C23: when the binned partition of a range of N references leaves one
\* side empty, split returns the median split by index of the array as the
\* partition loop left it: the left range is the first N div 2 references,
\* the right range the remaining N - N div 2, each with the geometry and
\* centroid bounds of its own references, and both are non-empty for N >= 2;
\* the references of the range are permuted and no other moved.
C23_MedianFallback ==
  (sp.op = "split" /\ BinNoProgress) =>
    /\ sp.res.left.start = sp.bin.start
    /\ sp.res.left.size = sp.bin.size \div 2
    /\ sp.res.right.start = sp.bin.start + sp.bin.size \div 2
    /\ sp.res.right.size = sp.bin.size - sp.bin.size \div 2
    /\ sp.res.left.size >= 1 /\ sp.res.right.size >= 1
    /\ sp.res.left.bounds = BinOwnBounds(sp.res.prims, sp.res.left).geom
    /\ sp.res.left.cent = BinOwnBounds(sp.res.prims, sp.res.left).cent
    /\ sp.res.right.bounds = BinOwnBounds(sp.res.prims, sp.res.right).geom
    /\ sp.res.right.cent = BinOwnBounds(sp.res.prims, sp.res.right).cent
    /\ Len(sp.res.prims) = Len(sp.prims)
    /\ IsPermutation(SubSeq(sp.res.prims, sp.bin.start + 1, RangeEnd(sp.bin)),
                     SubSeq(sp.prims, sp.bin.start + 1, RangeEnd(sp.bin)))
    /\ \A i \in 1 .. Len(sp.prims) :
         (i <= sp.bin.start \/ i > RangeEnd(sp.bin)) => sp.res.prims[i] = sp.prims[i]

\* three references of one centroid split by the median: one to the left,
\* two to the right, with different bounds
C23_Witness ==
  /\ sp.op = "split" /\ BinNoProgress /\ sp.bin.size = 3
  /\ sp.res.left.size = 1 /\ sp.res.right.size = 2
  /\ sp.res.left.bounds # sp.res.right.bounds
  /\ sp.res.prims # sp.prims

(***************************************************************************)
(* Properties of bvh_reference_sort                                        *)
(***************************************************************************)
\* data[start, end) is in non-decreasing comparator order
SortedRange(data, start, end) ==
  \A i \in start + 1 .. end - 1 : BVHReferenceCompare(data[i], data[i + 1], SortDim) <= 0

\* the slots of [start, end) hold what they held at the call in some order,
\* the others what they held
SortKeepsContent ==
  /\ Len(tp.data) = Len(tp.orig)
  /\ IsPermutation(SubSeq(tp.data, tp.start + 1, tp.end),
                   SubSeq(tp.orig, tp.start + 1, tp.end))
  /\ \A i \in 1 .. Len(tp.data) : (i <= tp.start \/ i > tp.end) => tp.data[i] = tp.orig[i]

JobSize(job) == job.end - job.start

\* the next pass of a call that has work ends the call or leaves it a
\* smaller range, and the range it pushes is smaller than the one it had
SortPassShrinks(job) ==
  \A r \in {bvh_reference_sort_threaded(tp.data, job)} :
    /\ ~r.job.have_work \/ JobSize(r.job) < JobSize(job)
    /\ r.job.fork # <<>> => r.job.fork[2] - r.job.fork[1] < JobSize(job)

\* C24: bvh_reference_sort(start, end) leaves data[start, end) a permutation
\* of its previous content in non-decreasing comparator order and every
\* other slot unchanged, on the sequential and on the threaded path; in the
\* threaded path no pass reads or writes outside [job_start, job_end] of its
\* job, the jobs lie in [start, end - 1], every pass ends its call or
\* shrinks its range, and wait_work returns only when no task is pending
\* or running.
C24_SortSortsRange ==
  /\ SortKeepsContent
  /\ tp.phase = "sorted" =>
       /\ SortedRange(tp.data, tp.start, tp.end)
       /\ tp.queue = <<>>
       /\ \A t \in PoolThreads : ~tp.thr[t].have_work
  /\ tp.phase = "sort" =>
       /\ \A i \in 1 .. Len(tp.queue) :
            RangeIn(<<tp.queue[i].job_start, tp.queue[i].job_end>>, <<tp.start, tp.end - 1>>)
       /\ \A t \in PoolThreads :
            /\ tp.thr[t].have_work =>
                 /\ RangeIn(<<tp.thr[t].job_start, tp.thr[t].job_end>>,
                            <<tp.start, tp.end - 1>>)
                 /\ SortPassShrinks(tp.thr[t])
            /\ tp.thr[t].lo <= tp.thr[t].hi =>
                 RangeIn(<<tp.thr[t].lo, tp.thr[t].hi>>,
                         <<tp.thr[t].job_start, tp.thr[t].job_end>>)

\* a threaded sort of all but the first and the last slot of an array with
\* equal keys has pushed a task and returned with the order changed
C24_Witness ==
  /\ tp.phase = "sorted" /\ tp.pushed >= 1
  /\ tp.start = 1 /\ tp.end = Len(tp.data) - 1
  /\ tp.data # tp.orig
  /\ \E i \in tp.start + 1 .. tp.end - 1 : tp.data[i] = tp.data[i + 1]

\* the number of references of the range [a, b], both ends included
RangeCount(a, b) == b - a + 1

\* C25 as claimed: a task is pushed to the pool only for a sub-range of
\* BVH_SORT_THRESHOLD references or more; for a sub-range below the
\* threshold no task is pushed.
C25_Original_PushOnlyAtThreshold ==
  tp.phase = "sort" =>
    /\ \A i \in 1 .. Len(tp.queue) :
         RangeCount(tp.queue[i].job_start, tp.queue[i].job_end) >= BVH_SORT_THRESHOLD
    /\ \A t \in PoolThreads :
         tp.thr[t].fork # <<>> =>
           RangeCount(tp.thr[t].fork[1], tp.thr[t].fork[2]) >= BVH_SORT_THRESHOLD

(***************************************************************************)
(* Properties of the scratch storage                                       *)
(***************************************************************************)
\* the slots the sweep from left to right of the running evaluation reads
\* hold what its sweep from right to left wrote
StorageOwned ==
  (tp.evals # <<>> /\ StorageTop.pc = "read") =>
    /\ Len(tp.right_bounds) >= StorageTop.size
    /\ \A k \in 1 .. StorageTop.size - 1 :
         tp.right_bounds[k] = StorageTag(StorageTop, StorageTop.dim, k - 1)

\* C26: no sweep of a split evaluation reads a slot of right_bounds that
\* another evaluation wrote or that lies behind its end: between the sweep
\* that fills right_bounds and the sweep that reads it the evaluation
\* calls no sort, so that no other task runs on the thread, and before
\* every fill, after the sort, right_bounds has range.size() entries or
\* more.
C26_StorageNotClobbered ==
  /\ ~tp.oob /\ ~tp.stale
  /\ StorageOwned
  /\ (tp.evals # <<>> /\ StorageTop.pc = "fill") =>
       Len(tp.right_bounds) >= StorageTop.size
  /\ \A k \in 2 .. Len(tp.evals) : tp.evals[k].pc \in {"sort", "split"}

\* an evaluation of a range of more than NUM_SPATIAL_BINS references has
\* read back what it wrote for its second dimension after another
\* evaluation ran on the thread while it waited in a sort
C26_Witness ==
  /\ tp.evals # <<>> /\ StorageTop.pc = "sort" /\ StorageTop.dim = 2
  /\ StorageTop.nested >= 1 /\ tp.last = "read"
  /\ Len(tp.right_bounds) = StorageTop.size
  /\ StorageTop.size > NUM_SPATIAL_BINS

(***************************************************************************)
(* Properties of BoundBox                                                  *)
(***************************************************************************)
\* C27 as claimed: every box reachable through grow by a point, grow by a
\* box, merge and intersect from valid boxes and the empty box is valid or
\* is the empty box.
C27_Original_ValidOrEmpty == ValidOrEmpty(sp.box)

\* the two boxes are valid and share a point on every axis
BoxesOverlap(a, b) ==
  /\ BoundBox_valid(a) /\ BoundBox_valid(b)
  /\ \A d \in 1 .. 3 : a.min[d] <= b.max[d] /\ b.min[d] <= a.max[d]

\* the last operation was applied to boxes that are valid or empty
BoxStepSound == ValidOrEmpty(sp.box) /\ ValidOrEmpty(sp'.arg)

\* what an operation on two boxes that are valid or empty returns
BoxStep ==
  BoxStepSound =>
    /\ sp'.op \in {"grow_pt", "grow", "merge"} =>
         /\ ValidOrEmpty(sp'.box)
         /\ \A p \in BoxPoints :
              PointIn(p, sp.box) \/ PointIn(p, sp'.arg) => PointIn(p, sp'.box)
    /\ sp'.op = "intersect" =>
         /\ \A p \in BoxPoints :
              PointIn(p, sp'.box) <=> PointIn(p, sp.box) /\ PointIn(p, sp'.arg)
         /\ BoundBox_valid(sp'.box) <=> BoxesOverlap(sp.box, sp'.arg)
         /\ (sp.box = BoundBox_empty \/ sp'.arg = BoundBox_empty) => sp'.box = BoundBox_empty
         /\ ~BoundBox_valid(sp'.box) => BoundBox_safe_area(sp'.box) = 0

\* C27: every box reachable through grow by a point, grow by a box and
\* merge from valid boxes and the empty box is valid or is the empty box;
\* intersect of two such boxes returns a valid box if they overlap on every
\* axis, the empty box if one of them is empty, and otherwise a box with
\* min > max on some axis that contains no point and has the safe_area 0.
C27_ValidOrEmptyUnlessDisjoint ==
  /\ []((sp.sound /\ sp.op # "intersect") => ValidOrEmpty(sp.box))
  /\ [][BoxStep]_vars

\* the intersection of two valid boxes that do not overlap: neither valid
\* nor the empty box
C27_Witness ==
  /\ sp.op = "intersect" /\ sp.sound /\ BoundBox_valid(sp.arg)
  /\ ~BoundBox_valid(sp.box) /\ sp.box # BoundBox_empty
  /\ BoundBox_safe_area(sp.box) = 0

(***************************************************************************)
(* Properties of the ranges BVHSpatialSplit::split returns                 *)
(***************************************************************************)
\* the references of [from, to) of an array
RefsOf(refs, from, to) == SubSeq(refs, from + 1, to)

\* C28: whenever BVHSpatialSplit::split returns an empty left or an empty
\* right range it has neither duplicated nor clipped a reference: the array
\* has the length it had, [range.start, range.end) holds a permutation of
\* the references it held and the rest of the array is as it was, so the
\* object split applied as fallback, which sorts the range along one
\* dimension, works on the references of the range before the call.
C28_EmptySideKeepsReferences ==
  (sp.op = "done" /\ (sp.res.left.size = 0 \/ sp.res.right.size = 0)) =>
    /\ sp.res.dups = 0
    /\ Len(sp.res.refs) = Len(sp.refs)
    /\ IsPermutation(RefsOf(sp.res.refs, sp.range.start, RangeEnd(sp.range)),
                     RefsOf(sp.refs, sp.range.start, RangeEnd(sp.range)))
    /\ RefsOf(sp.res.refs, 0, sp.range.start) = RefsOf(sp.refs, 0, sp.range.start)
    /\ RefsOf(sp.res.refs, RangeEnd(sp.range), Len(sp.refs))
         = RefsOf(sp.refs, RangeEnd(sp.range), Len(sp.refs))
    /\ \A dim \in Dims :
         IsPermutation(RefsOf(bvh_reference_sort(sp.range.start, RangeEnd(sp.range),
                                                 sp.res.refs, dim),
                              sp.range.start, RangeEnd(sp.range)),
                       RefsOf(sp.refs, sp.range.start, RangeEnd(sp.range)))

\* a split of two or more references, one of them on both sides of the
\* plane, that returns an empty side
C28_Witness ==
  /\ sp.op = "done" /\ sp.range.size >= 2
  /\ sp.res.left.size = 0 \/ sp.res.right.size = 0
  /\ \E i \in sp.range.start + 1 .. RangeEnd(sp.range) :
       /\ sp.refs[i].bounds.min[sp.dim + 1] < sp.pos
       /\ sp.pos < sp.refs[i].bounds.max[sp.dim + 1]

\* growing a by b leaves a as it is
BoxContains(a, b) == BoundBox_grow(a, b) = a

\* the bounds of the range contain those of each of its references
RangeBoundsContain(refs, range) ==
  \A i \in range.start + 1 .. RangeEnd(range) : BoxContains(range.bounds, refs[i].bounds)

\* C29 as claimed: for every range start, without and with an aligned
\* space, the bounds of the left range BVHSpatialSplit::split returns
\* contain the bounds of every reference of [left.start, left.end) and the
\* bounds of the right range those of every reference of [right.start,
\* right.end), in the array after the duplicates have been inserted.
C29_Original_RangeBoundsContain ==
  sp.op = "done" =>
    /\ RangeBoundsContain(sp.res.refs, sp.res.left)
    /\ RangeBoundsContain(sp.res.refs, sp.res.right)

\* the same without an aligned space
C29_UnalignedRangeBoundsContain == ~sp.aligned => C29_Original_RangeBoundsContain

(***************************************************************************)
(* Properties of the space pack_instances reserves                         *)
(***************************************************************************)
\* every geometry with a structure of its own is that of some object; a
\* geometry without one adds nothing to the space reserved
MergeGeometryReferenced ==
  \A g \in 1 .. Len(top.geometry) :
    top.geometry[g].need_build_bvh =>
      \E o \in 1 .. Len(top.objects) : top.objects[o].g = g - 1

\* the write cursors are within the arrays they write to
MergeCursorsWithin ==
  /\ top.m.pack_prim_index_offset <= Len(pack.prim_index)
  /\ top.m.pack_prim_index_offset <= Len(pack.prim_type)
  /\ top.m.pack_prim_index_offset <= Len(pack.prim_object)
  /\ top.m.pack_prim_index_offset <= Len(pack.prim_visibility)
  /\ top.m.pack_nodes_offset <= Len(pack.nodes)
  /\ top.m.pack_leaf_nodes_offset <= Len(pack.leaf_nodes)
  /\ top.m.object_offset <= Len(pack.object_node)

\* C30: in the instance merge the space reserved equals the space written:
\* the geometry list holding the geometries of the objects once each, after
\* every pass of the merge loop the write cursors are within the arrays, so
\* no write went past the end of an array, and when pack_instances ends the
\* cursors for nodes, leaf nodes and primitives equal the lengths the
\* arrays were resized to and object_node has got one entry per object.
C30_ReservedEqualsWritten ==
  (top.phase \in {"merge", "merged"} /\ MergeGeometryReferenced) =>
    /\ MergeCursorsWithin
    /\ Len(pack.object_node) = Len(top.objects)
    /\ top.phase = "merged" =>
         /\ top.m.pack_prim_index_offset = Len(pack.prim_index)
         /\ top.m.pack_nodes_offset = Len(pack.nodes)
         /\ top.m.pack_leaf_nodes_offset = Len(pack.leaf_nodes)
         /\ top.m.object_offset = Len(top.objects)

\* the merge has ended after it copied the structures of two geometries,
\* one of them that of two objects, behind nodes of the top level
C30_Witness ==
  /\ top.phase = "merged"
  /\ Len(top.m.copies) = 2
  /\ Len(top.objects) > Len(top.m.copies)
  /\ \A o \in 1 .. Len(top.objects) : top.geometry[top.objects[o].g + 1].need_build_bvh
  /\ top.nodes_size > 0
  /\ top.m.pack_nodes_offset > top.nodes_size
  /\ top.m.pack_prim_index_offset > top.prims

====
